---------------------------- MODULE Spec2Model ----------------------------
(***************************************************************************)
(* A model of the colour subsystem of rust-css: the Color value type, the   *)
(* HSL to RGB conversion, the keyword table and the colour-string parser    *)
(* of src/color.rs.                                                         *)
(*                                                                          *)
(* Strings are sequences of characters, a character being a one-character   *)
(* TLA+ string.  A floating-point value that is only parsed, stored,        *)
(* compared or printed is the rational [n, d] it was written as, in lowest  *)
(* terms (d > 0), with d = 0 for the three special values: n = 1 is +inf,   *)
(* n = -1 is -inf and n = 0 is NaN.  hsla, which computes with its          *)
(* arguments, does so in binary64, every operation rounded as the machine   *)
(* rounds it.                                                               *)
(***************************************************************************)
EXTENDS Integers, Sequences, FiniteSets, TLC

VARIABLES
    pc,       \* the call about to be made; "returned" after it, "failed" after fail!
    color,    \* the string handed to parse_color
    args,     \* the arguments handed to hsla, hsl, rgba, rgb or print
    result,   \* what the call returned
    log,      \* the diagnostics emitted by warn!
    cast,     \* what this build's float-to-u8 cast does out of range
    returns,  \* the calls of parse_color so far: <<argument, what it returned>>
    sheet,    \* the stylesheet of parse_stylesheet: what it was given so far
    input,    \* the stream of parse_stylesheet: what it has yet to yield
    trace     \* the calls parse_stylesheet made so far, in order

vars == <<pc, color, args, result, log, cast, returns, sheet, input, trace>>

-----------------------------------------------------------------------------
(* Option<Color> and task failure *)

None == [tag |-> "None"]

Some(v) == [tag |-> "Some", val |-> v]

\* fail!(...) and the failed assertions of the library: the task is aborted
Fail == [tag |-> "fail"]

-----------------------------------------------------------------------------
(* Characters and strings *)

UpperCase == <<"A","B","C","D","E","F","G","H","I","J","K","L","M",
               "N","O","P","Q","R","S","T","U","V","W","X","Y","Z">>

LowerCase == <<"a","b","c","d","e","f","g","h","i","j","k","l","m",
               "n","o","p","q","r","s","t","u","v","w","x","y","z">>

Digits == <<"0","1","2","3","4","5","6","7","8","9">>

\* One character outside ASCII (U+00E9), two bytes long in UTF-8
NonAscii == {"<e-acute>"}

\* str::to_ascii asserts is_ascii
is_ascii(str) == \A i \in 1..Len(str) : str[i] \notin NonAscii

\* to_lower_char as it would be with the lower-casing left out
to_lower_char_kept(c) == c

\* Ascii::to_lower on one character
to_lower_char(c) ==
    IF \E i \in 1..Len(UpperCase) : UpperCase[i] = c
    THEN LowerCase[CHOOSE i \in 1..Len(UpperCase) : UpperCase[i] = c]
    ELSE c

to_lower(str) == [i \in 1..Len(str) |-> to_lower_char(str[i])]

starts_with(str, prefix) ==
    /\ Len(str) >= Len(prefix)
    /\ SubSeq(str, 1, Len(prefix)) = prefix

-----------------------------------------------------------------------------
(* Floating-point values *)

RECURSIVE Gcd(_, _)
Gcd(x, y) == IF y = 0 THEN x ELSE Gcd(y, x % y)

Abs(x) == IF x < 0 THEN -x ELSE x

\* The float n/d (d # 0), in lowest terms with a positive denominator
F(n, d) ==
    LET g == Gcd(Abs(n), Abs(d))
        sgn == IF d < 0 THEN -1 ELSE 1
    IN  [n |-> sgn * (n \div g), d |-> sgn * (d \div g)]

Inf == [n |-> 1, d |-> 0]

NegInf == [n |-> -1, d |-> 0]

NaN == [n |-> 0, d |-> 0]

IsNaN(x) == x.d = 0 /\ x.n = 0

IsFinite(x) == x.d # 0

Sign(x) == IF x.n > 0 THEN 1 ELSE IF x.n < 0 THEN -1 ELSE 0

fneg(x) == [n |-> -x.n, d |-> x.d]

fadd(x, y) ==
    IF IsNaN(x) \/ IsNaN(y) THEN NaN
    ELSE IF ~IsFinite(x) THEN (IF ~IsFinite(y) /\ y.n # x.n THEN NaN ELSE x)
    ELSE IF ~IsFinite(y) THEN y
    ELSE F(x.n * y.d + y.n * x.d, x.d * y.d)

fsub(x, y) == fadd(x, fneg(y))

fmul(x, y) ==
    IF IsNaN(x) \/ IsNaN(y) THEN NaN
    ELSE IF ~IsFinite(x) \/ ~IsFinite(y)
         THEN (IF x.n = 0 \/ y.n = 0 THEN NaN
               ELSE [n |-> Sign(x) * Sign(y), d |-> 0])
    ELSE F(x.n * y.n, x.d * y.d)

fdiv(x, y) ==
    IF IsNaN(x) \/ IsNaN(y) THEN NaN
    ELSE IF ~IsFinite(y) THEN (IF IsFinite(x) THEN F(0, 1) ELSE NaN)
    ELSE IF y.n = 0
         THEN (IF x.n = 0 THEN NaN ELSE [n |-> Sign(x), d |-> 0])
    ELSE fmul(x, F(y.d, y.n))

\* x < y; every comparison with NaN is false
flt(x, y) ==
    /\ ~IsNaN(x)
    /\ ~IsNaN(y)
    /\ IF IsFinite(x) /\ IsFinite(y) THEN x.n * y.d < y.n * x.d
       ELSE IF IsFinite(x) THEN y = Inf
       ELSE IF IsFinite(y) THEN x = NegInf
       ELSE x = NegInf /\ y = Inf

fle(x, y) == ~IsNaN(x) /\ ~IsNaN(y) /\ (x = y \/ flt(x, y))

\* x rounded toward zero, as an integer (x finite)
trunc(x) == IF x.n >= 0 THEN x.n \div x.d ELSE -((-x.n) \div x.d)

\* The outcomes of casting a float that u8 cannot hold, which the language
\* leaves undefined: the low byte of the truncated value, or the nearest u8
CastOutcomes == {"wrap", "saturate"}

\* `x as u8`
as_u8(x) ==
    IF IsFinite(x) /\ trunc(x) >= 0 /\ trunc(x) <= 255 THEN trunc(x)
    ELSE IF cast = "wrap" THEN (IF IsFinite(x) THEN trunc(x) % 256 ELSE 0)
    ELSE (IF IsNaN(x) \/ x.n < 0 THEN 0 ELSE 255)

-----------------------------------------------------------------------------
(* binary64 arithmetic: the type `float` of the source.  A finite value is  *)
(* sg * m * 2^e with m a natural number of at most 53 bits, written as its  *)
(* digits in base 2^15, lowest first, and m odd (or m = 0, written <<>>);   *)
(* every operation rounds its exact result to the nearest such value, ties  *)
(* to the even m.  Infinities and NaN are the values Inf, NegInf and NaN    *)
(* above.  Subnormal values and overflow are not modelled.                  *)

\* The digits of a mantissa are in base 2^LimbBits
LimbBits == 15

Base == 32768

\* The bits of the mantissa of a binary64 value, the implicit one included
MantissaBits == 53

RECURSIVE Pow2(_)
Pow2(k) == IF k = 0 THEN 1 ELSE 2 * Pow2(k - 1)

\* The number of bits of the natural number x
RECURSIVE Width(_)
Width(x) == IF x = 0 THEN 0 ELSE 1 + Width(x \div 2)

Rest(a) == IF a = <<>> THEN <<>> ELSE Tail(a)

Low(a) == IF a = <<>> THEN 0 ELSE a[1]

\* The digits without the zeros above the highest one
RECURSIVE BStrip(_)
BStrip(a) ==
    IF a # <<>> /\ a[Len(a)] = 0 THEN BStrip(SubSeq(a, 1, Len(a) - 1)) ELSE a

\* a + b + c, for c at most 1
RECURSIVE BAdd(_, _, _)
BAdd(a, b, c) ==
    IF a = <<>> /\ b = <<>> THEN (IF c = 0 THEN <<>> ELSE <<c>>)
    ELSE LET x == Low(a) + Low(b) + c
         IN  <<x % Base>> \o BAdd(Rest(a), Rest(b), x \div Base)

\* a - b - borrow, for a >= b + borrow
RECURSIVE BSubB(_, _, _)
BSubB(a, b, borrow) ==
    IF a = <<>> THEN <<>>
    ELSE LET x == a[1] - Low(b) - borrow
         IN  <<IF x < 0 THEN x + Base ELSE x>>
                 \o BSubB(Tail(a), Rest(b), IF x < 0 THEN 1 ELSE 0)

BSub(a, b) == BStrip(BSubB(a, b, 0))

\* -1, 0 or 1 as a is below, equal to or above b
BCmp(a, b) ==
    IF Len(a) # Len(b) THEN (IF Len(a) < Len(b) THEN -1 ELSE 1)
    ELSE IF a = b THEN 0
    ELSE LET i == CHOOSE i \in 1..Len(a) :
                      a[i] # b[i] /\ \A j \in (i + 1)..Len(a) : a[j] = b[j]
         IN  IF a[i] < b[i] THEN -1 ELSE 1

\* a * k + c, for k and c below Base
RECURSIVE BMulS(_, _, _)
BMulS(a, k, c) ==
    IF a = <<>> THEN (IF c = 0 THEN <<>> ELSE <<c>>)
    ELSE LET x == a[1] * k + c
         IN  <<x % Base>> \o BMulS(Tail(a), k, x \div Base)

RECURSIVE BMul(_, _)
BMul(a, b) ==
    IF a = <<>> \/ b = <<>> THEN <<>>
    ELSE BAdd(BMulS(a, b[1], 0),
              IF Tail(b) = <<>> THEN <<>> ELSE <<0>> \o BMul(a, Tail(b)), 0)

\* The quotient q and the remainder r of a by k, for k at most Base
RECURSIVE BDivRem(_, _)
BDivRem(a, k) ==
    IF a = <<>> THEN [q |-> <<>>, r |-> 0]
    ELSE LET hi  == BDivRem(Tail(a), k)
             cur == hi.r * Base + a[1]
         IN  [q |-> <<cur \div k>> \o hi.q, r |-> cur % k]

\* a * 2^n
BShl(a, n) ==
    IF a = <<>> THEN <<>>
    ELSE [i \in 1..(n \div LimbBits) |-> 0] \o BMulS(a, Pow2(n % LimbBits), 0)

\* a \div 2^n
BShr(a, n) ==
    IF n \div LimbBits >= Len(a) THEN <<>>
    ELSE BStrip(BDivRem(SubSeq(a, (n \div LimbBits) + 1, Len(a)),
                        Pow2(n % LimbBits)).q)

BitLen(a) == IF a = <<>> THEN 0 ELSE LimbBits * (Len(a) - 1) + Width(a[Len(a)])

\* The element of a set of one element.  The operators below name their
\* intermediate values by drawing them from such sets, as the source names
\* them with `let`: a value so named is computed once.
The(S) == CHOOSE v \in S : TRUE

\* sg * m * 2^e with m made odd
RECURSIVE Canon(_, _, _)
Canon(sg, m, e) ==
    IF m = <<>> THEN [sg |-> 1, m |-> <<>>, e |-> 0]
    ELSE IF m[1] = 0 THEN Canon(sg, Tail(m), e + LimbBits)
    ELSE IF m[1] % 2 = 0 THEN Canon(sg, BShr(m, 1), e + 1)
    ELSE [sg |-> sg, m |-> m, e |-> e]

\* The binary64 value nearest to sg * m * 2^e, ties to even: q is m without
\* its d lowest bits, and becomes q + 1 when what those bits held compares to
\* one half as above, or as equal with q odd
Rnd64(sg, m, e) ==
    IF BitLen(m) <= MantissaBits THEN Canon(sg, m, e)
    ELSE The({The({The({Canon(sg,
                              IF c > 0 \/ (c = 0 /\ q[1] % 2 = 1)
                              THEN BAdd(q, <<1>>, 0) ELSE q,
                              e + d) :
                        c \in {BCmp(BSub(m, BShl(q, d)), BShl(<<1>>, d - 1))}}) :
                   q \in {BShr(m, d)}}) :
              d \in {BitLen(m) - MantissaBits}})

\* A value is finite when it is not one of Inf, NegInf, NaN
IsFinite64(x) == "m" \in DOMAIN x

\* A rational of the sign of x, standing for x where only its sign matters
Rep(x) == IF ~IsFinite64(x) THEN x ELSE IF x.m = <<>> THEN F(0, 1) ELSE F(x.sg, 1)

FromInt(n) ==
    Canon(IF n < 0 THEN -1 ELSE 1, BStrip(<<Abs(n) % Base, Abs(n) \div Base>>), 0)

\* The result of an operation one of whose operands is not finite
Special(v) == IF IsFinite(v) THEN FromInt(v.n) ELSE v

fneg64(x) == IF IsFinite64(x) THEN [x EXCEPT !.sg = IF x.m = <<>> THEN 1 ELSE -x.sg]
             ELSE fneg(x)

fadd64(x, y) ==
    IF ~IsFinite64(x) \/ ~IsFinite64(y) THEN Special(fadd(Rep(x), Rep(y)))
    ELSE IF x.m = <<>> THEN y
    ELSE IF y.m = <<>> THEN x
    ELSE The({Rnd64(IF x.sg = y.sg \/ BCmp(xm, ym) > 0 THEN x.sg ELSE y.sg,
                    IF x.sg = y.sg THEN BAdd(xm, ym, 0)
                    ELSE IF BCmp(xm, ym) > 0 THEN BSub(xm, ym)
                    ELSE BSub(ym, xm),
                    IF x.e < y.e THEN x.e ELSE y.e) :
              xm \in {BShl(x.m, IF x.e < y.e THEN 0 ELSE x.e - y.e)},
              ym \in {BShl(y.m, IF x.e < y.e THEN y.e - x.e ELSE 0)}})

fsub64(x, y) == fadd64(x, fneg64(y))

fmul64(x, y) ==
    IF ~IsFinite64(x) \/ ~IsFinite64(y) THEN Special(fmul(Rep(x), Rep(y)))
    ELSE Rnd64(x.sg * y.sg, BStrip(BMul(x.m, y.m)), x.e + y.e)

\* x / y, for a finite y whose odd part is below Base; the digit added below
\* the quotient tells a remainder from none
fdiv64(x, y) ==
    IF ~IsFinite64(x) \/ ~IsFinite64(y) \/ y.m = <<>>
    THEN Special(fdiv(Rep(x), Rep(y)))
    ELSE The({Rnd64(x.sg * y.sg,
                    BAdd(BMulS(BStrip(d.q), 2, 0),
                         IF d.r = 0 THEN <<>> ELSE <<1>>, 0),
                    x.e - y.e - 5 * LimbBits - 1) :
              d \in {BDivRem(BShl(x.m, 5 * LimbBits), y.m[1])}})

\* -1, 0 or 1 as the finite x is below, at or above zero
Sign64(x) == IF x.m = <<>> THEN 0 ELSE x.sg

\* -1, 0 or 1 as the finite x is below, equal to or above the finite y
Cmp64(x, y) ==
    IF Sign64(x) # Sign64(y) THEN (IF Sign64(x) < Sign64(y) THEN -1 ELSE 1)
    ELSE Sign64(x) * BCmp(BShl(x.m, IF x.e < y.e THEN 0 ELSE x.e - y.e),
                          BShl(y.m, IF x.e < y.e THEN y.e - x.e ELSE 0))

flt64(x, y) ==
    IF ~IsFinite64(x) \/ ~IsFinite64(y) THEN flt(Rep(x), Rep(y))
    ELSE Cmp64(x, y) < 0

fle64(x, y) ==
    IF ~IsFinite64(x) \/ ~IsFinite64(y) THEN fle(Rep(x), Rep(y))
    ELSE Cmp64(x, y) <= 0

\* libc round(): to the nearest integer, halves away from zero
round64(x) ==
    IF ~IsFinite64(x) THEN x
    ELSE IF x.e >= 0 THEN x
    ELSE The({Canon(x.sg,
                    IF BCmp(BSub(x.m, BShl(q, -x.e)), BShl(<<1>>, -x.e - 1)) >= 0
                    THEN BAdd(q, <<1>>, 0) ELSE q,
                    0) :
              q \in {BShr(x.m, -x.e)}})

\* The binary64 value nearest to the rational x (its odd denominator part
\* below Base)
FromRat(x) == IF ~IsFinite(x) THEN x ELSE fdiv64(FromInt(x.n), FromInt(x.d))

\* An integer binary64 value below Base^2 in magnitude, as a rational
ToRat(x) ==
    IF ~IsFinite64(x) THEN x
    ELSE LET a == BShl(x.m, x.e) IN F(x.sg * (Low(a) + Base * Low(Rest(a))), 1)

-----------------------------------------------------------------------------
(* The Color type and its constructors *)

Color(r, g, b, a) == [red |-> r, green |-> g, blue |-> b, alpha |-> a]

\* The value of a call that returned
Ok(v) == [tag |-> "ok", val |-> v]

\* rgba as it would be if it clamped alpha to [0, 1]
rgba_clamped(r, g, b, a) ==
    Color(r, g, b, IF flt(a, F(0, 1)) THEN F(0, 1)
                   ELSE IF flt(F(1, 1), a) THEN F(1, 1) ELSE a)

rgba(r, g, b, a) == Color(r, g, b, a)

\* rgb as it would be if it built a transparent Color
rgb_transparent(r, g, b) == rgba(r, g, b, F(0, 1))

rgb(r, g, b) == rgba(r, g, b, F(1, 1))

\* The derived equality as it would be if it compared the channels only
eq_channels_only(self, other) ==
    /\ self.red = other.red
    /\ self.green = other.green
    /\ self.blue = other.blue

\* #[deriving(Eq)]: the fields compared in turn, alpha as floats are (a NaN
\* equals nothing)
eq(self, other) ==
    /\ self.red = other.red
    /\ self.green = other.green
    /\ self.blue = other.blue
    /\ fle(self.alpha, other.alpha) /\ fle(other.alpha, self.alpha)

\* The constants of hue_to_rgb, each the quotient the compiler folds
\* The quotients of literals the source writes: 1.0/6.0, 1.0/3.0, 1.0/2.0
\* (which is also its 0.5) and 2.0/3.0
Quotient ==
    [sixth |-> fdiv64(FromInt(1), FromInt(6)),
     third |-> fdiv64(FromInt(1), FromInt(3)),
     half |-> fdiv64(FromInt(1), FromInt(2)),
     twothirds |-> fdiv64(FromInt(2), FromInt(3))]

\* The helper nested in hsla: Ok(channel), or Fail at "unexpected hue value"
hue_to_rgb(m1, m2, h0) ==
    The({IF fle64(FromInt(0), h) /\ flt64(h, Quotient.sixth)
         THEN Ok(fadd64(m1, fmul64(fmul64(fsub64(m2, m1), h), FromInt(6))))
         ELSE IF fle64(Quotient.sixth, h) /\ flt64(h, Quotient.half)
         THEN Ok(m2)
         ELSE IF fle64(Quotient.half, h) /\ flt64(h, Quotient.twothirds)
         THEN Ok(fadd64(m1, fmul64(fsub64(m2, m1),
                                   fsub64(FromInt(4), fmul64(FromInt(6), h)))))
         ELSE IF fle64(Quotient.twothirds, h) /\ fle64(h, FromInt(1))
         THEN Ok(m1)
         ELSE Fail :
         h \in {IF flt64(h0, FromInt(0)) THEN fadd64(h0, FromInt(1))
                ELSE IF flt64(FromInt(1), h0) THEN fsub64(h0, FromInt(1))
                ELSE h0}})

\* Lines 28 and 29 as they would be if m2 were l + s above one half
Mix_no_product(s, l) ==
    The({[m2 |-> m2, m1 |-> fsub64(fmul64(l, FromInt(2)), m2)] :
         m2 \in {IF fle64(l, Quotient.half)
                 THEN fmul64(l, fadd64(s, FromInt(1)))
                 ELSE fadd64(l, s)}})

\* Lines 28 and 29: m2 and m1
Mix(s, l) ==
    The({[m2 |-> m2, m1 |-> fsub64(fmul64(l, FromInt(2)), m2)] :
         m2 \in {IF fle64(l, Quotient.half)
                 THEN fmul64(l, fadd64(s, FromInt(1)))
                 ELSE fsub64(fadd64(l, s), fmul64(l, s))}})

\* The three fractional channels of hsla before they are scaled and rounded
\* (lines 49 to 51), each Ok(channel) or Fail
Fractional(h_, s, l) ==
    The({<<hue_to_rgb(m.m1, m.m2, fadd64(h, Quotient.third)),
           hue_to_rgb(m.m1, m.m2, h),
           hue_to_rgb(m.m1, m.m2, fsub64(h, Quotient.third))>> :
         m \in {Mix(FromRat(s), FromRat(l))},
         h \in {fdiv64(FromRat(h_), FromInt(360))}})

\* round(255.0 * channel), before the cast
Scaled(channel) == ToRat(round64(fmul64(FromInt(255), channel)))

\* Ok(Color), or Fail when hue_to_rgb fails
hsla(h_, s, l, a) ==
    The({IF ch[1] = Fail \/ ch[2] = Fail \/ ch[3] = Fail THEN Fail
         ELSE Ok(rgba(as_u8(Scaled(ch[1].val)), as_u8(Scaled(ch[2].val)),
                      as_u8(Scaled(ch[3].val)), a)) :
         ch \in {Fractional(h_, s, l)}})

hsl(h_, s, l) == hsla(h_, s, l, F(1, 1))

-----------------------------------------------------------------------------
(* css_colors: one accessor per keyword *)

css_colors == [
    aliceblue |-> Color(240, 248, 255, F(1, 1)),
    antiquewhite |-> Color(250, 235, 215, F(1, 1)),
    aqua |-> Color(0, 255, 255, F(1, 1)),
    aquamarine |-> Color(127, 255, 212, F(1, 1)),
    azure |-> Color(240, 255, 255, F(1, 1)),
    beige |-> Color(245, 245, 220, F(1, 1)),
    bisque |-> Color(255, 228, 196, F(1, 1)),
    black |-> Color(0, 0, 0, F(1, 1)),
    blanchedalmond |-> Color(255, 235, 205, F(1, 1)),
    blue |-> Color(0, 0, 255, F(1, 1)),
    blueviolet |-> Color(138, 43, 226, F(1, 1)),
    brown |-> Color(165, 42, 42, F(1, 1)),
    burlywood |-> Color(222, 184, 135, F(1, 1)),
    cadetblue |-> Color(95, 158, 160, F(1, 1)),
    chartreuse |-> Color(127, 255, 0, F(1, 1)),
    chocolate |-> Color(210, 105, 30, F(1, 1)),
    coral |-> Color(255, 127, 80, F(1, 1)),
    cornflowerblue |-> Color(100, 149, 237, F(1, 1)),
    cornsilk |-> Color(255, 248, 220, F(1, 1)),
    crimson |-> Color(220, 20, 60, F(1, 1)),
    cyan |-> Color(0, 255, 255, F(1, 1)),
    darkblue |-> Color(0, 0, 139, F(1, 1)),
    darkcyan |-> Color(0, 139, 139, F(1, 1)),
    darkgoldenrod |-> Color(184, 134, 11, F(1, 1)),
    darkgray |-> Color(169, 169, 169, F(1, 1)),
    darkgreen |-> Color(0, 100, 0, F(1, 1)),
    darkgrey |-> Color(169, 169, 169, F(1, 1)),
    darkkhaki |-> Color(189, 183, 107, F(1, 1)),
    darkmagenta |-> Color(139, 0, 139, F(1, 1)),
    darkolivegreen |-> Color(85, 107, 47, F(1, 1)),
    darkorange |-> Color(255, 140, 0, F(1, 1)),
    darkorchid |-> Color(153, 50, 204, F(1, 1)),
    darkred |-> Color(139, 0, 0, F(1, 1)),
    darksalmon |-> Color(233, 150, 122, F(1, 1)),
    darkseagreen |-> Color(143, 188, 143, F(1, 1)),
    darkslateblue |-> Color(72, 61, 139, F(1, 1)),
    darkslategray |-> Color(47, 79, 79, F(1, 1)),
    darkslategrey |-> Color(47, 79, 79, F(1, 1)),
    darkturquoise |-> Color(0, 206, 209, F(1, 1)),
    darkviolet |-> Color(148, 0, 211, F(1, 1)),
    deeppink |-> Color(255, 20, 147, F(1, 1)),
    deepskyblue |-> Color(0, 191, 255, F(1, 1)),
    dimgray |-> Color(105, 105, 105, F(1, 1)),
    dimgrey |-> Color(105, 105, 105, F(1, 1)),
    dodgerblue |-> Color(30, 144, 255, F(1, 1)),
    firebrick |-> Color(178, 34, 34, F(1, 1)),
    floralwhite |-> Color(255, 250, 240, F(1, 1)),
    forestgreen |-> Color(34, 139, 34, F(1, 1)),
    fuchsia |-> Color(255, 0, 255, F(1, 1)),
    gainsboro |-> Color(220, 220, 220, F(1, 1)),
    ghostwhite |-> Color(248, 248, 255, F(1, 1)),
    gold |-> Color(255, 215, 0, F(1, 1)),
    goldenrod |-> Color(218, 165, 32, F(1, 1)),
    gray |-> Color(128, 128, 128, F(1, 1)),
    grey |-> Color(128, 128, 128, F(1, 1)),
    green |-> Color(0, 128, 0, F(1, 1)),
    greenyellow |-> Color(173, 255, 47, F(1, 1)),
    honeydew |-> Color(240, 255, 240, F(1, 1)),
    hotpink |-> Color(255, 105, 180, F(1, 1)),
    indianred |-> Color(205, 92, 92, F(1, 1)),
    indigo |-> Color(75, 0, 130, F(1, 1)),
    ivory |-> Color(255, 255, 240, F(1, 1)),
    khaki |-> Color(240, 230, 140, F(1, 1)),
    lavender |-> Color(230, 230, 250, F(1, 1)),
    lavenderblush |-> Color(255, 240, 245, F(1, 1)),
    lawngreen |-> Color(124, 252, 0, F(1, 1)),
    lemonchiffon |-> Color(255, 250, 205, F(1, 1)),
    lightblue |-> Color(173, 216, 230, F(1, 1)),
    lightcoral |-> Color(240, 128, 128, F(1, 1)),
    lightcyan |-> Color(224, 255, 255, F(1, 1)),
    lightgoldenrodyellow |-> Color(250, 250, 210, F(1, 1)),
    lightgray |-> Color(211, 211, 211, F(1, 1)),
    lightgreen |-> Color(144, 238, 144, F(1, 1)),
    lightgrey |-> Color(211, 211, 211, F(1, 1)),
    lightpink |-> Color(255, 182, 193, F(1, 1)),
    lightsalmon |-> Color(255, 160, 122, F(1, 1)),
    lightseagreen |-> Color(32, 178, 170, F(1, 1)),
    lightskyblue |-> Color(135, 206, 250, F(1, 1)),
    lightslategray |-> Color(119, 136, 153, F(1, 1)),
    lightslategrey |-> Color(119, 136, 153, F(1, 1)),
    lightsteelblue |-> Color(176, 196, 222, F(1, 1)),
    lightyellow |-> Color(255, 255, 224, F(1, 1)),
    lime |-> Color(0, 255, 0, F(1, 1)),
    limegreen |-> Color(50, 205, 50, F(1, 1)),
    linen |-> Color(250, 240, 230, F(1, 1)),
    magenta |-> Color(255, 0, 255, F(1, 1)),
    maroon |-> Color(128, 0, 0, F(1, 1)),
    mediumaquamarine |-> Color(102, 205, 170, F(1, 1)),
    mediumblue |-> Color(0, 0, 205, F(1, 1)),
    mediumorchid |-> Color(186, 85, 211, F(1, 1)),
    mediumpurple |-> Color(147, 112, 219, F(1, 1)),
    mediumseagreen |-> Color(60, 179, 113, F(1, 1)),
    mediumslateblue |-> Color(123, 104, 238, F(1, 1)),
    mediumspringgreen |-> Color(0, 250, 154, F(1, 1)),
    mediumturquoise |-> Color(72, 209, 204, F(1, 1)),
    mediumvioletred |-> Color(199, 21, 133, F(1, 1)),
    midnightblue |-> Color(25, 25, 112, F(1, 1)),
    mintcream |-> Color(245, 255, 250, F(1, 1)),
    mistyrose |-> Color(255, 228, 225, F(1, 1)),
    moccasin |-> Color(255, 228, 181, F(1, 1)),
    navajowhite |-> Color(255, 222, 173, F(1, 1)),
    navy |-> Color(0, 0, 128, F(1, 1)),
    oldlace |-> Color(253, 245, 230, F(1, 1)),
    olive |-> Color(128, 128, 0, F(1, 1)),
    olivedrab |-> Color(107, 142, 35, F(1, 1)),
    orange |-> Color(255, 165, 0, F(1, 1)),
    orangered |-> Color(255, 69, 0, F(1, 1)),
    orchid |-> Color(218, 112, 214, F(1, 1)),
    palegoldenrod |-> Color(238, 232, 170, F(1, 1)),
    palegreen |-> Color(152, 251, 152, F(1, 1)),
    paleturquoise |-> Color(175, 238, 238, F(1, 1)),
    palevioletred |-> Color(219, 112, 147, F(1, 1)),
    papayawhip |-> Color(255, 239, 213, F(1, 1)),
    peachpuff |-> Color(255, 218, 185, F(1, 1)),
    peru |-> Color(205, 133, 63, F(1, 1)),
    pink |-> Color(255, 192, 203, F(1, 1)),
    plum |-> Color(221, 160, 221, F(1, 1)),
    powderblue |-> Color(176, 224, 230, F(1, 1)),
    purple |-> Color(128, 0, 128, F(1, 1)),
    red |-> Color(255, 0, 0, F(1, 1)),
    rosybrown |-> Color(188, 143, 143, F(1, 1)),
    royalblue |-> Color(65, 105, 225, F(1, 1)),
    saddlebrown |-> Color(139, 69, 19, F(1, 1)),
    salmon |-> Color(250, 128, 114, F(1, 1)),
    sandybrown |-> Color(244, 164, 96, F(1, 1)),
    seagreen |-> Color(46, 139, 87, F(1, 1)),
    seashell |-> Color(255, 245, 238, F(1, 1)),
    sienna |-> Color(160, 82, 45, F(1, 1)),
    silver |-> Color(192, 192, 192, F(1, 1)),
    skyblue |-> Color(135, 206, 235, F(1, 1)),
    slateblue |-> Color(106, 90, 205, F(1, 1)),
    slategray |-> Color(112, 128, 144, F(1, 1)),
    slategrey |-> Color(112, 128, 144, F(1, 1)),
    snow |-> Color(255, 250, 250, F(1, 1)),
    springgreen |-> Color(0, 255, 127, F(1, 1)),
    steelblue |-> Color(70, 130, 180, F(1, 1)),
    tan |-> Color(210, 180, 140, F(1, 1)),
    teal |-> Color(0, 128, 128, F(1, 1)),
    thistle |-> Color(216, 191, 216, F(1, 1)),
    tomato |-> Color(255, 99, 71, F(1, 1)),
    turquoise |-> Color(64, 224, 208, F(1, 1)),
    violet |-> Color(238, 130, 238, F(1, 1)),
    wheat |-> Color(245, 222, 179, F(1, 1)),
    white |-> Color(255, 255, 255, F(1, 1)),
    whitesmoke |-> Color(245, 245, 245, F(1, 1)),
    yellow |-> Color(255, 255, 0, F(1, 1)),
    yellowgreen |-> Color(154, 205, 50, F(1, 1))
]

\* The identifier of each accessor of css_colors, spelled as a string
accessor_name == [
    aliceblue |-> <<"a","l","i","c","e","b","l","u","e">>,
    antiquewhite |-> <<"a","n","t","i","q","u","e","w","h","i","t","e">>,
    aqua |-> <<"a","q","u","a">>,
    aquamarine |-> <<"a","q","u","a","m","a","r","i","n","e">>,
    azure |-> <<"a","z","u","r","e">>,
    beige |-> <<"b","e","i","g","e">>,
    bisque |-> <<"b","i","s","q","u","e">>,
    black |-> <<"b","l","a","c","k">>,
    blanchedalmond |-> <<"b","l","a","n","c","h","e","d","a","l","m","o","n","d">>,
    blue |-> <<"b","l","u","e">>,
    blueviolet |-> <<"b","l","u","e","v","i","o","l","e","t">>,
    brown |-> <<"b","r","o","w","n">>,
    burlywood |-> <<"b","u","r","l","y","w","o","o","d">>,
    cadetblue |-> <<"c","a","d","e","t","b","l","u","e">>,
    chartreuse |-> <<"c","h","a","r","t","r","e","u","s","e">>,
    chocolate |-> <<"c","h","o","c","o","l","a","t","e">>,
    coral |-> <<"c","o","r","a","l">>,
    cornflowerblue |-> <<"c","o","r","n","f","l","o","w","e","r","b","l","u","e">>,
    cornsilk |-> <<"c","o","r","n","s","i","l","k">>,
    crimson |-> <<"c","r","i","m","s","o","n">>,
    cyan |-> <<"c","y","a","n">>,
    darkblue |-> <<"d","a","r","k","b","l","u","e">>,
    darkcyan |-> <<"d","a","r","k","c","y","a","n">>,
    darkgoldenrod |-> <<"d","a","r","k","g","o","l","d","e","n","r","o","d">>,
    darkgray |-> <<"d","a","r","k","g","r","a","y">>,
    darkgreen |-> <<"d","a","r","k","g","r","e","e","n">>,
    darkgrey |-> <<"d","a","r","k","g","r","e","y">>,
    darkkhaki |-> <<"d","a","r","k","k","h","a","k","i">>,
    darkmagenta |-> <<"d","a","r","k","m","a","g","e","n","t","a">>,
    darkolivegreen |-> <<"d","a","r","k","o","l","i","v","e","g","r","e","e","n">>,
    darkorange |-> <<"d","a","r","k","o","r","a","n","g","e">>,
    darkorchid |-> <<"d","a","r","k","o","r","c","h","i","d">>,
    darkred |-> <<"d","a","r","k","r","e","d">>,
    darksalmon |-> <<"d","a","r","k","s","a","l","m","o","n">>,
    darkseagreen |-> <<"d","a","r","k","s","e","a","g","r","e","e","n">>,
    darkslateblue |-> <<"d","a","r","k","s","l","a","t","e","b","l","u","e">>,
    darkslategray |-> <<"d","a","r","k","s","l","a","t","e","g","r","a","y">>,
    darkslategrey |-> <<"d","a","r","k","s","l","a","t","e","g","r","e","y">>,
    darkturquoise |-> <<"d","a","r","k","t","u","r","q","u","o","i","s","e">>,
    darkviolet |-> <<"d","a","r","k","v","i","o","l","e","t">>,
    deeppink |-> <<"d","e","e","p","p","i","n","k">>,
    deepskyblue |-> <<"d","e","e","p","s","k","y","b","l","u","e">>,
    dimgray |-> <<"d","i","m","g","r","a","y">>,
    dimgrey |-> <<"d","i","m","g","r","e","y">>,
    dodgerblue |-> <<"d","o","d","g","e","r","b","l","u","e">>,
    firebrick |-> <<"f","i","r","e","b","r","i","c","k">>,
    floralwhite |-> <<"f","l","o","r","a","l","w","h","i","t","e">>,
    forestgreen |-> <<"f","o","r","e","s","t","g","r","e","e","n">>,
    fuchsia |-> <<"f","u","c","h","s","i","a">>,
    gainsboro |-> <<"g","a","i","n","s","b","o","r","o">>,
    ghostwhite |-> <<"g","h","o","s","t","w","h","i","t","e">>,
    gold |-> <<"g","o","l","d">>,
    goldenrod |-> <<"g","o","l","d","e","n","r","o","d">>,
    gray |-> <<"g","r","a","y">>,
    grey |-> <<"g","r","e","y">>,
    green |-> <<"g","r","e","e","n">>,
    greenyellow |-> <<"g","r","e","e","n","y","e","l","l","o","w">>,
    honeydew |-> <<"h","o","n","e","y","d","e","w">>,
    hotpink |-> <<"h","o","t","p","i","n","k">>,
    indianred |-> <<"i","n","d","i","a","n","r","e","d">>,
    indigo |-> <<"i","n","d","i","g","o">>,
    ivory |-> <<"i","v","o","r","y">>,
    khaki |-> <<"k","h","a","k","i">>,
    lavender |-> <<"l","a","v","e","n","d","e","r">>,
    lavenderblush |-> <<"l","a","v","e","n","d","e","r","b","l","u","s","h">>,
    lawngreen |-> <<"l","a","w","n","g","r","e","e","n">>,
    lemonchiffon |-> <<"l","e","m","o","n","c","h","i","f","f","o","n">>,
    lightblue |-> <<"l","i","g","h","t","b","l","u","e">>,
    lightcoral |-> <<"l","i","g","h","t","c","o","r","a","l">>,
    lightcyan |-> <<"l","i","g","h","t","c","y","a","n">>,
    lightgoldenrodyellow |-> <<"l","i","g","h","t","g","o","l","d","e","n","r","o","d","y","e","l","l","o","w">>,
    lightgray |-> <<"l","i","g","h","t","g","r","a","y">>,
    lightgreen |-> <<"l","i","g","h","t","g","r","e","e","n">>,
    lightgrey |-> <<"l","i","g","h","t","g","r","e","y">>,
    lightpink |-> <<"l","i","g","h","t","p","i","n","k">>,
    lightsalmon |-> <<"l","i","g","h","t","s","a","l","m","o","n">>,
    lightseagreen |-> <<"l","i","g","h","t","s","e","a","g","r","e","e","n">>,
    lightskyblue |-> <<"l","i","g","h","t","s","k","y","b","l","u","e">>,
    lightslategray |-> <<"l","i","g","h","t","s","l","a","t","e","g","r","a","y">>,
    lightslategrey |-> <<"l","i","g","h","t","s","l","a","t","e","g","r","e","y">>,
    lightsteelblue |-> <<"l","i","g","h","t","s","t","e","e","l","b","l","u","e">>,
    lightyellow |-> <<"l","i","g","h","t","y","e","l","l","o","w">>,
    lime |-> <<"l","i","m","e">>,
    limegreen |-> <<"l","i","m","e","g","r","e","e","n">>,
    linen |-> <<"l","i","n","e","n">>,
    magenta |-> <<"m","a","g","e","n","t","a">>,
    maroon |-> <<"m","a","r","o","o","n">>,
    mediumaquamarine |-> <<"m","e","d","i","u","m","a","q","u","a","m","a","r","i","n","e">>,
    mediumblue |-> <<"m","e","d","i","u","m","b","l","u","e">>,
    mediumorchid |-> <<"m","e","d","i","u","m","o","r","c","h","i","d">>,
    mediumpurple |-> <<"m","e","d","i","u","m","p","u","r","p","l","e">>,
    mediumseagreen |-> <<"m","e","d","i","u","m","s","e","a","g","r","e","e","n">>,
    mediumslateblue |-> <<"m","e","d","i","u","m","s","l","a","t","e","b","l","u","e">>,
    mediumspringgreen |-> <<"m","e","d","i","u","m","s","p","r","i","n","g","g","r","e","e","n">>,
    mediumturquoise |-> <<"m","e","d","i","u","m","t","u","r","q","u","o","i","s","e">>,
    mediumvioletred |-> <<"m","e","d","i","u","m","v","i","o","l","e","t","r","e","d">>,
    midnightblue |-> <<"m","i","d","n","i","g","h","t","b","l","u","e">>,
    mintcream |-> <<"m","i","n","t","c","r","e","a","m">>,
    mistyrose |-> <<"m","i","s","t","y","r","o","s","e">>,
    moccasin |-> <<"m","o","c","c","a","s","i","n">>,
    navajowhite |-> <<"n","a","v","a","j","o","w","h","i","t","e">>,
    navy |-> <<"n","a","v","y">>,
    oldlace |-> <<"o","l","d","l","a","c","e">>,
    olive |-> <<"o","l","i","v","e">>,
    olivedrab |-> <<"o","l","i","v","e","d","r","a","b">>,
    orange |-> <<"o","r","a","n","g","e">>,
    orangered |-> <<"o","r","a","n","g","e","r","e","d">>,
    orchid |-> <<"o","r","c","h","i","d">>,
    palegoldenrod |-> <<"p","a","l","e","g","o","l","d","e","n","r","o","d">>,
    palegreen |-> <<"p","a","l","e","g","r","e","e","n">>,
    paleturquoise |-> <<"p","a","l","e","t","u","r","q","u","o","i","s","e">>,
    palevioletred |-> <<"p","a","l","e","v","i","o","l","e","t","r","e","d">>,
    papayawhip |-> <<"p","a","p","a","y","a","w","h","i","p">>,
    peachpuff |-> <<"p","e","a","c","h","p","u","f","f">>,
    peru |-> <<"p","e","r","u">>,
    pink |-> <<"p","i","n","k">>,
    plum |-> <<"p","l","u","m">>,
    powderblue |-> <<"p","o","w","d","e","r","b","l","u","e">>,
    purple |-> <<"p","u","r","p","l","e">>,
    red |-> <<"r","e","d">>,
    rosybrown |-> <<"r","o","s","y","b","r","o","w","n">>,
    royalblue |-> <<"r","o","y","a","l","b","l","u","e">>,
    saddlebrown |-> <<"s","a","d","d","l","e","b","r","o","w","n">>,
    salmon |-> <<"s","a","l","m","o","n">>,
    sandybrown |-> <<"s","a","n","d","y","b","r","o","w","n">>,
    seagreen |-> <<"s","e","a","g","r","e","e","n">>,
    seashell |-> <<"s","e","a","s","h","e","l","l">>,
    sienna |-> <<"s","i","e","n","n","a">>,
    silver |-> <<"s","i","l","v","e","r">>,
    skyblue |-> <<"s","k","y","b","l","u","e">>,
    slateblue |-> <<"s","l","a","t","e","b","l","u","e">>,
    slategray |-> <<"s","l","a","t","e","g","r","a","y">>,
    slategrey |-> <<"s","l","a","t","e","g","r","e","y">>,
    snow |-> <<"s","n","o","w">>,
    springgreen |-> <<"s","p","r","i","n","g","g","r","e","e","n">>,
    steelblue |-> <<"s","t","e","e","l","b","l","u","e">>,
    tan |-> <<"t","a","n">>,
    teal |-> <<"t","e","a","l">>,
    thistle |-> <<"t","h","i","s","t","l","e">>,
    tomato |-> <<"t","o","m","a","t","o">>,
    turquoise |-> <<"t","u","r","q","u","o","i","s","e">>,
    violet |-> <<"v","i","o","l","e","t">>,
    wheat |-> <<"w","h","e","a","t">>,
    white |-> <<"w","h","i","t","e">>,
    whitesmoke |-> <<"w","h","i","t","e","s","m","o","k","e">>,
    yellow |-> <<"y","e","l","l","o","w">>,
    yellowgreen |-> <<"y","e","l","l","o","w","g","r","e","e","n">>
]

\* The arms of the match in parse_by_name, in source order: the literal and
\* the accessor it calls
keyword_arms == <<
    [pat |-> <<"a","l","i","c","e","b","l","u","e">>, fn |-> "aliceblue"],
    [pat |-> <<"a","n","t","i","q","u","e","w","h","i","t","e">>, fn |-> "antiquewhite"],
    [pat |-> <<"a","q","u","a">>, fn |-> "aqua"],
    [pat |-> <<"a","q","u","a","m","a","r","i","n","e">>, fn |-> "aquamarine"],
    [pat |-> <<"a","z","u","r","e">>, fn |-> "azure"],
    [pat |-> <<"b","e","i","g","e">>, fn |-> "beige"],
    [pat |-> <<"b","i","s","q","u","e">>, fn |-> "bisque"],
    [pat |-> <<"b","l","a","c","k">>, fn |-> "black"],
    [pat |-> <<"b","l","a","n","c","h","e","d","a","l","m","o","n","d">>, fn |-> "blanchedalmond"],
    [pat |-> <<"b","l","u","e">>, fn |-> "blue"],
    [pat |-> <<"b","l","u","e","v","i","o","l","e","t">>, fn |-> "blueviolet"],
    [pat |-> <<"b","r","o","w","n">>, fn |-> "brown"],
    [pat |-> <<"b","u","r","l","y","w","o","o","d">>, fn |-> "burlywood"],
    [pat |-> <<"c","a","d","e","t","b","l","u","e">>, fn |-> "cadetblue"],
    [pat |-> <<"c","h","a","r","t","r","e","u","s","e">>, fn |-> "chartreuse"],
    [pat |-> <<"c","h","o","c","o","l","a","t","e">>, fn |-> "chocolate"],
    [pat |-> <<"c","o","r","a","l">>, fn |-> "coral"],
    [pat |-> <<"c","o","r","n","f","l","o","w","e","r","b","l","u","e">>, fn |-> "cornflowerblue"],
    [pat |-> <<"c","o","r","n","s","i","l","k">>, fn |-> "cornsilk"],
    [pat |-> <<"c","r","i","m","s","o","n">>, fn |-> "crimson"],
    [pat |-> <<"c","y","a","n">>, fn |-> "cyan"],
    [pat |-> <<"d","a","r","k","b","l","u","e">>, fn |-> "darkblue"],
    [pat |-> <<"d","a","r","k","c","y","a","n">>, fn |-> "darkcyan"],
    [pat |-> <<"d","a","r","k","g","o","l","d","e","n","r","o","d">>, fn |-> "darkgoldenrod"],
    [pat |-> <<"d","a","r","k","g","r","a","y">>, fn |-> "darkgray"],
    [pat |-> <<"d","a","r","k","g","r","e","e","n">>, fn |-> "darkgreen"],
    [pat |-> <<"d","a","r","k","g","r","e","y">>, fn |-> "darkgrey"],
    [pat |-> <<"d","a","r","k","k","h","a","k","i">>, fn |-> "darkkhaki"],
    [pat |-> <<"d","a","r","k","m","a","g","e","n","t","a">>, fn |-> "darkmagenta"],
    [pat |-> <<"d","a","r","k","o","l","i","v","e","g","r","e","e","n">>, fn |-> "darkolivegreen"],
    [pat |-> <<"d","a","r","k","o","r","a","n","g","e">>, fn |-> "darkorange"],
    [pat |-> <<"d","a","r","k","o","r","c","h","i","d">>, fn |-> "darkorchid"],
    [pat |-> <<"d","a","r","k","r","e","d">>, fn |-> "darkred"],
    [pat |-> <<"d","a","r","k","s","a","l","m","o","n">>, fn |-> "darksalmon"],
    [pat |-> <<"d","a","r","k","s","e","a","g","r","e","e","n">>, fn |-> "darkseagreen"],
    [pat |-> <<"d","a","r","k","s","l","a","t","e","b","l","u","e">>, fn |-> "darkslateblue"],
    [pat |-> <<"d","a","r","k","s","l","a","t","e","g","r","a","y">>, fn |-> "darkslategray"],
    [pat |-> <<"d","a","r","k","s","l","a","t","e","g","r","e","y">>, fn |-> "darkslategrey"],
    [pat |-> <<"d","a","r","k","t","u","r","q","u","o","i","s","e">>, fn |-> "darkturquoise"],
    [pat |-> <<"d","a","r","k","v","i","o","l","e","t">>, fn |-> "darkviolet"],
    [pat |-> <<"d","e","e","p","p","i","n","k">>, fn |-> "deeppink"],
    [pat |-> <<"d","e","e","p","s","k","y","b","l","u","e">>, fn |-> "deepskyblue"],
    [pat |-> <<"d","i","m","g","r","a","y">>, fn |-> "dimgray"],
    [pat |-> <<"d","i","m","g","r","e","y">>, fn |-> "dimgrey"],
    [pat |-> <<"d","o","d","g","e","r","b","l","u","e">>, fn |-> "dodgerblue"],
    [pat |-> <<"f","i","r","e","b","r","i","c","k">>, fn |-> "firebrick"],
    [pat |-> <<"f","l","o","r","a","l","w","h","i","t","e">>, fn |-> "floralwhite"],
    [pat |-> <<"f","o","r","e","s","t","g","r","e","e","n">>, fn |-> "forestgreen"],
    [pat |-> <<"f","u","c","h","s","i","a">>, fn |-> "fuchsia"],
    [pat |-> <<"g","a","i","n","s","b","o","r","o">>, fn |-> "gainsboro"],
    [pat |-> <<"g","h","o","s","t","w","h","i","t","e">>, fn |-> "ghostwhite"],
    [pat |-> <<"g","o","l","d">>, fn |-> "gold"],
    [pat |-> <<"g","o","l","d","e","n","r","o","d">>, fn |-> "goldenrod"],
    [pat |-> <<"g","r","a","y">>, fn |-> "gray"],
    [pat |-> <<"g","r","e","y">>, fn |-> "grey"],
    [pat |-> <<"g","r","e","e","n">>, fn |-> "green"],
    [pat |-> <<"g","r","e","e","n","y","e","l","l","o","w">>, fn |-> "greenyellow"],
    [pat |-> <<"h","o","n","e","y","d","e","w">>, fn |-> "honeydew"],
    [pat |-> <<"h","o","t","p","i","n","k">>, fn |-> "hotpink"],
    [pat |-> <<"i","n","d","i","a","n","r","e","d">>, fn |-> "indianred"],
    [pat |-> <<"i","n","d","i","g","o">>, fn |-> "indigo"],
    [pat |-> <<"i","v","o","r","y">>, fn |-> "ivory"],
    [pat |-> <<"k","h","a","k","i">>, fn |-> "khaki"],
    [pat |-> <<"l","a","v","e","n","d","e","r">>, fn |-> "lavender"],
    [pat |-> <<"l","a","v","e","n","d","e","r","b","l","u","s","h">>, fn |-> "lavenderblush"],
    [pat |-> <<"l","a","w","n","g","r","e","e","n">>, fn |-> "lawngreen"],
    [pat |-> <<"l","e","m","o","n","c","h","i","f","f","o","n">>, fn |-> "lemonchiffon"],
    [pat |-> <<"l","i","g","h","t","b","l","u","e">>, fn |-> "lightblue"],
    [pat |-> <<"l","i","g","h","t","c","o","r","a","l">>, fn |-> "lightcoral"],
    [pat |-> <<"l","i","g","h","t","c","y","a","n">>, fn |-> "lightcyan"],
    [pat |-> <<"l","i","g","h","t","g","o","l","d","e","n","r","o","d","y","e","l","l","o","w">>, fn |-> "lightgoldenrodyellow"],
    [pat |-> <<"l","i","g","h","t","g","r","a","y">>, fn |-> "lightgray"],
    [pat |-> <<"l","i","g","h","t","g","r","e","e","n">>, fn |-> "lightgreen"],
    [pat |-> <<"l","i","g","h","t","g","r","e","y">>, fn |-> "lightgrey"],
    [pat |-> <<"l","i","g","h","t","p","i","n","k">>, fn |-> "lightpink"],
    [pat |-> <<"l","i","g","h","t","s","a","l","m","o","n">>, fn |-> "lightsalmon"],
    [pat |-> <<"l","i","g","h","t","s","e","a","g","r","e","e","n">>, fn |-> "lightseagreen"],
    [pat |-> <<"l","i","g","h","t","s","k","y","b","l","u","e">>, fn |-> "lightskyblue"],
    [pat |-> <<"l","i","g","h","t","s","l","a","t","e","g","r","a","y">>, fn |-> "lightslategray"],
    [pat |-> <<"l","i","g","h","t","s","l","a","t","e","g","r","e","y">>, fn |-> "lightslategrey"],
    [pat |-> <<"l","i","g","h","t","s","t","e","e","l","b","l","u","e">>, fn |-> "lightsteelblue"],
    [pat |-> <<"l","i","g","h","t","y","e","l","l","o","w">>, fn |-> "lightyellow"],
    [pat |-> <<"l","i","m","e">>, fn |-> "lime"],
    [pat |-> <<"l","i","m","e","g","r","e","e","n">>, fn |-> "limegreen"],
    [pat |-> <<"l","i","n","e","n">>, fn |-> "linen"],
    [pat |-> <<"m","a","g","e","n","t","a">>, fn |-> "magenta"],
    [pat |-> <<"m","a","r","o","o","n">>, fn |-> "maroon"],
    [pat |-> <<"m","e","d","i","u","m","a","q","u","a","m","a","r","i","n","e">>, fn |-> "mediumaquamarine"],
    [pat |-> <<"m","e","d","i","u","m","b","l","u","e">>, fn |-> "mediumblue"],
    [pat |-> <<"m","e","d","i","u","m","o","r","c","h","i","d">>, fn |-> "mediumorchid"],
    [pat |-> <<"m","e","d","i","u","m","p","u","r","p","l","e">>, fn |-> "mediumpurple"],
    [pat |-> <<"m","e","d","i","u","m","s","e","a","g","r","e","e","n">>, fn |-> "mediumseagreen"],
    [pat |-> <<"m","e","d","i","u","m","s","l","a","t","e","b","l","u","e">>, fn |-> "mediumslateblue"],
    [pat |-> <<"m","e","d","i","u","m","s","p","r","i","n","g","g","r","e","e","n">>, fn |-> "mediumspringgreen"],
    [pat |-> <<"m","e","d","i","u","m","t","u","r","q","u","o","i","s","e">>, fn |-> "mediumturquoise"],
    [pat |-> <<"m","e","d","i","u","m","v","i","o","l","e","t","r","e","d">>, fn |-> "mediumvioletred"],
    [pat |-> <<"m","i","d","n","i","g","h","t","b","l","u","e">>, fn |-> "midnightblue"],
    [pat |-> <<"m","i","n","t","c","r","e","a","m">>, fn |-> "mintcream"],
    [pat |-> <<"m","i","s","t","y","r","o","s","e">>, fn |-> "mistyrose"],
    [pat |-> <<"m","o","c","c","a","s","i","n">>, fn |-> "moccasin"],
    [pat |-> <<"n","a","v","a","j","o","w","h","i","t","e">>, fn |-> "navajowhite"],
    [pat |-> <<"n","a","v","y">>, fn |-> "navy"],
    [pat |-> <<"o","l","d","l","a","c","e">>, fn |-> "oldlace"],
    [pat |-> <<"o","l","i","v","e">>, fn |-> "olive"],
    [pat |-> <<"o","l","i","v","e","d","r","a","b">>, fn |-> "olivedrab"],
    [pat |-> <<"o","r","a","n","g","e">>, fn |-> "orange"],
    [pat |-> <<"o","r","a","n","g","e","r","e","d">>, fn |-> "orangered"],
    [pat |-> <<"o","r","c","h","i","d">>, fn |-> "orchid"],
    [pat |-> <<"p","a","l","e","g","o","l","d","e","n","r","o","d">>, fn |-> "palegoldenrod"],
    [pat |-> <<"p","a","l","e","g","r","e","e","n">>, fn |-> "palegreen"],
    [pat |-> <<"p","a","l","e","t","u","r","q","u","o","i","s","e">>, fn |-> "paleturquoise"],
    [pat |-> <<"p","a","l","e","v","i","o","l","e","t","r","e","d">>, fn |-> "palevioletred"],
    [pat |-> <<"p","a","p","a","y","a","w","h","i","p">>, fn |-> "papayawhip"],
    [pat |-> <<"p","e","a","c","h","p","u","f","f">>, fn |-> "peachpuff"],
    [pat |-> <<"p","e","r","u">>, fn |-> "peru"],
    [pat |-> <<"p","i","n","k">>, fn |-> "pink"],
    [pat |-> <<"p","l","u","m">>, fn |-> "plum"],
    [pat |-> <<"p","o","w","d","e","r","b","l","u","e">>, fn |-> "powderblue"],
    [pat |-> <<"p","u","r","p","l","e">>, fn |-> "purple"],
    [pat |-> <<"r","e","d">>, fn |-> "red"],
    [pat |-> <<"r","o","s","y","b","r","o","w","n">>, fn |-> "rosybrown"],
    [pat |-> <<"r","o","y","a","l","b","l","u","e">>, fn |-> "royalblue"],
    [pat |-> <<"s","a","d","d","l","e","b","r","o","w","n">>, fn |-> "saddlebrown"],
    [pat |-> <<"s","a","l","m","o","n">>, fn |-> "salmon"],
    [pat |-> <<"s","a","n","d","y","b","r","o","w","n">>, fn |-> "sandybrown"],
    [pat |-> <<"s","e","a","g","r","e","e","n">>, fn |-> "seagreen"],
    [pat |-> <<"s","e","a","s","h","e","l","l">>, fn |-> "seashell"],
    [pat |-> <<"s","i","e","n","n","a">>, fn |-> "sienna"],
    [pat |-> <<"s","i","l","v","e","r">>, fn |-> "silver"],
    [pat |-> <<"s","k","y","b","l","u","e">>, fn |-> "skyblue"],
    [pat |-> <<"s","l","a","t","e","b","l","u","e">>, fn |-> "slateblue"],
    [pat |-> <<"s","l","a","t","e","g","r","a","y">>, fn |-> "slategray"],
    [pat |-> <<"s","l","a","t","e","g","r","e","y">>, fn |-> "slategrey"],
    [pat |-> <<"s","n","o","w">>, fn |-> "snow"],
    [pat |-> <<"s","p","r","i","n","g","g","r","e","e","n">>, fn |-> "springgreen"],
    [pat |-> <<"s","t","e","e","l","b","l","u","e">>, fn |-> "steelblue"],
    [pat |-> <<"t","a","n">>, fn |-> "tan"],
    [pat |-> <<"t","e","a","l">>, fn |-> "teal"],
    [pat |-> <<"t","h","i","s","t","l","e">>, fn |-> "thistle"],
    [pat |-> <<"t","o","m","a","t","o">>, fn |-> "tomato"],
    [pat |-> <<"t","u","r","q","u","o","i","s","e">>, fn |-> "turquoise"],
    [pat |-> <<"v","i","o","l","e","t">>, fn |-> "violet"],
    [pat |-> <<"w","h","e","a","t">>, fn |-> "wheat"],
    [pat |-> <<"w","h","i","t","e">>, fn |-> "white"],
    [pat |-> <<"w","h","i","t","e","s","m","o","k","e">>, fn |-> "whitesmoke"],
    [pat |-> <<"y","e","l","l","o","w">>, fn |-> "yellow"],
    [pat |-> <<"y","e","l","l","o","w","g","r","e","e","n">>, fn |-> "yellowgreen"]
>>


-----------------------------------------------------------------------------
(* FromStr::from_str, as the parser uses it *)

IsDigit(c) == \E i \in 1..Len(Digits) : Digits[i] = c

\* char::to_digit(c, 10) of a digit
to_digit(c) == (CHOOSE i \in 1..Len(Digits) : Digits[i] = c) - 1

\* The number of consecutive digits of str from position i on
RECURSIVE DigitRun(_, _)
DigitRun(str, i) ==
    IF i <= Len(str) /\ IsDigit(str[i]) THEN 1 + DigitRun(str, i + 1) ELSE 0

\* The value of the digits str[i..j]
RECURSIVE DigitsValue(_, _, _)
DigitsValue(str, i, j) ==
    IF j < i THEN 0 ELSE 10 * DigitsValue(str, i, j - 1) + to_digit(str[j])

RECURSIVE Pow10(_)
Pow10(k) == IF k = 0 THEN 1 ELSE 10 * Pow10(k - 1)

\* from_str::<u8> as it would be if a numeral padded with zeros were refused
from_str_u8_no_padding(str) ==
    IF Len(str) = 0 THEN None
    ELSE IF str[1] = "-" THEN None
    ELSE LET start == IF str[1] = "+" THEN 2 ELSE 1
             k     == DigitRun(str, start)
         IN  IF k = 0 \/ start + k <= Len(str) THEN None
             ELSE IF k > 1 /\ str[start] = "0" THEN None
             ELSE IF DigitsValue(str, start, Len(str)) > 255 THEN None
             ELSE Some(DigitsValue(str, start, Len(str)))

\* from_str::<u8>: an optional '+' and decimal digits, no sign '-', no
\* fraction, no exponent, no surrounding whitespace, None above 255
from_str_u8(str) ==
    IF Len(str) = 0 THEN None
    ELSE IF str[1] = "-" THEN None
    ELSE LET start == IF str[1] = "+" THEN 2 ELSE 1
             k     == DigitRun(str, start)
         IN  IF k = 0 \/ start + k <= Len(str) THEN None
             ELSE IF DigitsValue(str, start, Len(str)) > 255 THEN None
             ELSE Some(DigitsValue(str, start, Len(str)))

\* The exponent of a float: a signed decimal integer
from_str_int(str) ==
    IF Len(str) = 0 THEN None
    ELSE LET start == IF str[1] \in {"+", "-"} THEN 2 ELSE 1
             k     == DigitRun(str, start)
         IN  IF k = 0 \/ start + k <= Len(str) THEN None
             ELSE Some((IF str[1] = "-" THEN -1 ELSE 1)
                       * DigitsValue(str, start, Len(str)))

\* from_str::<float>: "inf", "+inf", "-inf", "NaN", or an optional sign,
\* digits, an optional '.' and digits, an optional decimal exponent; "." alone
\* is 0; no surrounding whitespace
from_str_float(str) ==
    IF Len(str) = 0 THEN None
    ELSE IF str \in {<<"i","n","f">>, <<"+","i","n","f">>} THEN Some(Inf)
    ELSE IF str = <<"-","i","n","f">> THEN Some(NegInf)
    ELSE IF str = <<"N","a","N">> THEN Some(NaN)
    ELSE
    LET sgn    == IF str[1] = "-" THEN -1 ELSE 1
        start  == IF str[1] \in {"+", "-"} THEN 2 ELSE 1
        i1     == start + DigitRun(str, start)
        dot    == i1 <= Len(str) /\ str[i1] = "."
        f1     == IF dot THEN i1 + 1 ELSE i1
        i2     == f1 + DigitRun(str, f1)
        intv   == DigitsValue(str, start, i1 - 1)
        fracv  == DigitsValue(str, f1, i2 - 1)
        accum  == F(sgn * (intv * Pow10(i2 - f1) + fracv), Pow10(i2 - f1))
        exp    == from_str_int(SubSeq(str, i2 + 1, Len(str)))
    IN  IF i2 = start THEN None
        ELSE IF i2 > Len(str) THEN Some(accum)
        ELSE IF str[i2] \notin {"e", "E"} THEN None
        ELSE IF exp = None THEN None
        ELSE IF exp.val < 0 THEN Some(fmul(accum, F(1, Pow10(-exp.val))))
        ELSE Some(fmul(accum, F(Pow10(exp.val), 1)))

-----------------------------------------------------------------------------
(* mod parsing *)

\* What a parsing function did: what it returned (or Fail) and the
\* diagnostics it emitted
Did(ret, warn) == [ret |-> ret, warn |-> warn]

fail_unrecognized(col) == Did(None, <<col>>)

\* The match as it would be if an abbreviation selected the first arm it
\* abbreviates
FirstArm_abbreviated(str) ==
    LET hits == {i \in 1..Len(keyword_arms) : starts_with(keyword_arms[i].pat, str)}
    IN  IF hits = {} THEN 0 ELSE CHOOSE i \in hits : \A j \in hits : i <= j

\* The first arm of the match whose literal is str, 0 when there is none
FirstArm(str) ==
    LET hits == {i \in 1..Len(keyword_arms) : keyword_arms[i].pat = str}
    IN  IF hits = {} THEN 0 ELSE CHOOSE i \in hits : \A j \in hits : i <= j

\* parse_by_name as it would be if the arm "darkgrey" called darkgreen()
parse_by_name_darkgrey_slip(col) ==
    IF ~is_ascii(col) THEN Did(Fail, <<>>)
    ELSE LET arm == FirstArm(to_lower(col))
         IN  IF arm = 0 THEN fail_unrecognized(col)
             ELSE IF keyword_arms[arm].fn = "darkgrey"
                  THEN Did(Some(css_colors.darkgreen), <<>>)
             ELSE Did(Some(css_colors[keyword_arms[arm].fn]), <<>>)

\* parse_by_name as it would be if it trimmed spaces off both ends first
parse_by_name_trimmed(col) ==
    IF ~is_ascii(col) THEN Did(Fail, <<>>)
    ELSE LET inked   == {i \in 1..Len(col) : col[i] # " "}
             first   == CHOOSE i \in inked : \A j \in inked : i <= j
             last    == CHOOSE i \in inked : \A j \in inked : i >= j
             trimmed == IF inked = {} THEN <<>> ELSE SubSeq(col, first, last)
             arm     == FirstArm(to_lower(trimmed))
         IN  IF arm = 0 THEN fail_unrecognized(col)
             ELSE Did(Some(css_colors[keyword_arms[arm].fn]), <<>>)

parse_by_name(col) ==
    IF ~is_ascii(col) THEN Did(Fail, <<>>)
    ELSE LET arm == FirstArm(to_lower(col))
         IN  IF arm = 0 THEN fail_unrecognized(col)
             ELSE Did(Some(css_colors[keyword_arms[arm].fn]), <<>>)

\* The length of a string in bytes
RECURSIVE len(_)
len(str) ==
    IF str = <<>> THEN 0
    ELSE (IF Head(str) \in NonAscii THEN 2 ELSE 1) + len(Tail(str))

\* The number of characters of str that end at or before byte offset n, or
\* -1 when n is not a character boundary of str
RECURSIVE CharsAt(_, _)
CharsAt(str, n) ==
    IF n = 0 THEN 0
    ELSE IF str = <<>> \/ n < 0 THEN -1
    ELSE LET rest == CharsAt(Tail(str), n - (IF Head(str) \in NonAscii THEN 2 ELSE 1))
         IN  IF rest = -1 THEN -1 ELSE 1 + rest

\* str.slice(begin, end), byte offsets: Fail when begin > end or when an
\* offset is not a character boundary
slice(str, begin, end) ==
    IF begin > end \/ end > len(str) THEN Fail
    ELSE IF CharsAt(str, begin) = -1 \/ CharsAt(str, end) = -1 THEN Fail
    ELSE Ok(SubSeq(str, CharsAt(str, begin) + 1, CharsAt(str, end)))

\* The pieces str.split_iter(sep) yields
RECURSIVE split_iter(_, _)
split_iter(str, sep) ==
    IF \A i \in 1..Len(str) : str[i] # sep THEN <<str>>
    ELSE LET k == CHOOSE i \in 1..Len(str) :
                      str[i] = sep /\ \A j \in 1..(i - 1) : str[j] # sep
         IN  <<SubSeq(str, 1, k - 1)>> \o split_iter(SubSeq(str, k + 1, Len(str)), sep)

\* parse_rgb as it would be if it rejected only too few components
parse_rgb_at_least(col) ==
    LET only_colors == slice(col, 4, len(col) - 1)
        cols == split_iter(only_colors.val, ",")
        r == from_str_u8(cols[1])
        g == from_str_u8(cols[2])
        b == from_str_u8(cols[3])
    IN  IF only_colors = Fail THEN Did(Fail, <<>>)
        ELSE IF Len(cols) < 3 THEN fail_unrecognized(col)
        ELSE IF r # None /\ g # None /\ b # None
        THEN Did(Some(rgb(r.val, g.val, b.val)), <<>>)
        ELSE fail_unrecognized(col)

parse_rgb(col) ==
    LET only_colors == slice(col, 4, len(col) - 1)
        cols == split_iter(only_colors.val, ",")
        r == from_str_u8(cols[1])
        g == from_str_u8(cols[2])
        b == from_str_u8(cols[3])
    IN  IF only_colors = Fail THEN Did(Fail, <<>>)
        ELSE IF Len(cols) # 3 THEN fail_unrecognized(col)
        ELSE IF r # None /\ g # None /\ b # None
        THEN Did(Some(rgb(r.val, g.val, b.val)), <<>>)
        ELSE fail_unrecognized(col)

\* parse_rgba as it would be if an alpha that does not convert fell back to 1.0
parse_rgba_default_alpha(col) ==
    LET only_vals == slice(col, 5, len(col) - 1)
        cols == split_iter(only_vals.val, ",")
        r == from_str_u8(cols[1])
        g == from_str_u8(cols[2])
        b == from_str_u8(cols[3])
        a == from_str_float(cols[4])
    IN  IF only_vals = Fail THEN Did(Fail, <<>>)
        ELSE IF Len(cols) # 4 THEN fail_unrecognized(col)
        ELSE IF r # None /\ g # None /\ b # None
        THEN Did(Some(rgba(r.val, g.val, b.val,
                           IF a = None THEN F(1, 1) ELSE a.val)), <<>>)
        ELSE fail_unrecognized(col)

parse_rgba(col) ==
    LET only_vals == slice(col, 5, len(col) - 1)
        cols == split_iter(only_vals.val, ",")
        r == from_str_u8(cols[1])
        g == from_str_u8(cols[2])
        b == from_str_u8(cols[3])
        a == from_str_float(cols[4])
    IN  IF only_vals = Fail THEN Did(Fail, <<>>)
        ELSE IF Len(cols) # 4 THEN fail_unrecognized(col)
        ELSE IF r # None /\ g # None /\ b # None /\ a # None
        THEN Did(Some(rgba(r.val, g.val, b.val, a.val)), <<>>)
        ELSE fail_unrecognized(col)

\* Some(c) when the constructor returned c, Fail when it failed
SomeOf(made) == IF made = Fail THEN Fail ELSE Some(made.val)

parse_hsl(col) ==
    LET only_vals == slice(col, 4, len(col) - 1)
        vals == split_iter(only_vals.val, ",")
        h_ == from_str_float(vals[1])
        s == from_str_float(vals[2])
        l == from_str_float(vals[3])
    IN  IF only_vals = Fail THEN Did(Fail, <<>>)
        ELSE IF Len(vals) # 3 THEN fail_unrecognized(col)
        ELSE IF h_ # None /\ s # None /\ l # None
        THEN Did(SomeOf(hsl(h_.val, s.val, l.val)), <<>>)
        ELSE fail_unrecognized(col)

parse_hsla(col) ==
    LET only_vals == slice(col, 5, len(col) - 1)
        vals == split_iter(only_vals.val, ",")
        h_ == from_str_float(vals[1])
        s == from_str_float(vals[2])
        l == from_str_float(vals[3])
        a == from_str_float(vals[4])
    IN  IF only_vals = Fail THEN Did(Fail, <<>>)
        ELSE IF Len(vals) # 4 THEN fail_unrecognized(col)
        ELSE IF h_ # None /\ s # None /\ l # None /\ a # None
        THEN Did(SomeOf(hsla(h_.val, s.val, l.val, a.val)), <<>>)
        ELSE fail_unrecognized(col)

\* parse_color as it would be if the prefixes were matched in any case
parse_color_any_case(col) ==
    IF starts_with(to_lower(col), <<"r","g","b","(">>) THEN parse_rgb(col)
    ELSE IF starts_with(to_lower(col), <<"r","g","b","a","(">>) THEN parse_rgba(col)
    ELSE IF starts_with(to_lower(col), <<"h","s","l","(">>) THEN parse_hsl(col)
    ELSE IF starts_with(to_lower(col), <<"h","s","l","a","(">>) THEN parse_hsla(col)
    ELSE parse_by_name(col)

parse_color(col) ==
    IF starts_with(col, <<"r","g","b","(">>) THEN parse_rgb(col)
    ELSE IF starts_with(col, <<"r","g","b","a","(">>) THEN parse_rgba(col)
    ELSE IF starts_with(col, <<"h","s","l","(">>) THEN parse_hsl(col)
    ELSE IF starts_with(col, <<"h","s","l","a","(">>) THEN parse_hsla(col)
    ELSE parse_by_name(col)


-----------------------------------------------------------------------------
(* The calls *)

\* The value of `args` while no call of hsla is pending
NoArgs == [h |-> NaN, s |-> NaN, l |-> NaN, a |-> NaN]

\* The call as it would be if, once a diagnostic has been emitted, every
\* later call gave up
CallParseColor_sticky ==
    /\ pc = "parse_color"
    /\ \E did \in {IF log = <<>> THEN parse_color(color)
                   ELSE fail_unrecognized(color)} :
           /\ result' = did.ret
           /\ log' = log \o did.warn
           /\ returns' = Append(returns, <<color, did.ret>>)
           /\ pc' = IF did.ret = Fail THEN "failed" ELSE "returned"
    /\ UNCHANGED <<color, args, cast, sheet, input, trace>>

\* One call of parsing::parse_color on `color`
CallParseColor ==
    /\ pc = "parse_color"
    /\ \E did \in {parse_color(color)} :
           /\ result' = did.ret
           /\ log' = log \o did.warn
           /\ returns' = Append(returns, <<color, did.ret>>)
           /\ pc' = IF did.ret = Fail THEN "failed" ELSE "returned"
    /\ UNCHANGED <<color, args, cast, sheet, input, trace>>

\* One call of hsla on `args`
CallHsla ==
    /\ pc = "hsla"
    /\ \E made \in {hsla(args.h, args.s, args.l, args.a)} :
           /\ result' = made
           /\ pc' = IF made = Fail THEN "failed" ELSE "returned"
    /\ UNCHANGED <<color, args, log, cast, returns, sheet, input, trace>>

CallRgba ==
    /\ pc = "rgba"
    /\ result' = Ok(rgba(args.r, args.g, args.b, args.a))
    /\ pc' = "returned"
    /\ UNCHANGED <<color, args, log, cast, returns, sheet, input, trace>>

CallRgb ==
    /\ pc = "rgb"
    /\ result' = Ok(rgb(args.r, args.g, args.b))
    /\ pc' = "returned"
    /\ UNCHANGED <<color, args, log, cast, returns, sheet, input, trace>>

CallHsl ==
    /\ pc = "hsl"
    /\ \E made \in {hsl(args.h, args.s, args.l)} :
           /\ result' = made
           /\ pc' = IF made = Fail THEN "failed" ELSE "returned"
    /\ UNCHANGED <<color, args, log, cast, returns, sheet, input, trace>>

CallEq ==
    /\ pc = "eq"
    /\ result' = Ok(eq(args.self, args.other))
    /\ pc' = "returned"
    /\ UNCHANGED <<color, args, log, cast, returns, sheet, input, trace>>

\* No call of parse_stylesheet is under way
NotParsing == sheet = None /\ input = None /\ trace = <<>>

\* A call of the function `fn` about to be made on one of `calls`
InitCall(fn, calls) ==
    /\ pc = fn
    /\ color = <<>>
    /\ cast \in CastOutcomes
    /\ args \in calls
    /\ result = None
    /\ log = <<>>
    /\ returns = <<>>
    /\ NotParsing

\* The state before parse_color is called on one of `inputs`
InitParse(inputs) ==
    /\ pc = "parse_color"
    /\ color \in inputs
    /\ args = NoArgs
    /\ result = None
    /\ log = <<>>
    /\ cast \in CastOutcomes
    /\ returns = <<>>
    /\ NotParsing

\* The state before hsla is called on one of `calls`
InitHsla(calls) ==
    /\ pc = "hsla"
    /\ color = <<>>
    /\ args \in calls
    /\ result = None
    /\ log = <<>>
    /\ cast \in CastOutcomes
    /\ returns = <<>>
    /\ NotParsing

-----------------------------------------------------------------------------
(* Keyword inputs: every accessor's name in a family of case variants *)

\* The case of a name's letters follows a pattern of MaskLen letters, repeated
MaskLen == 6

to_upper_char(c) ==
    IF \E i \in 1..Len(LowerCase) : LowerCase[i] = c
    THEN UpperCase[CHOOSE i \in 1..Len(LowerCase) : LowerCase[i] = c]
    ELSE c

CaseVariant(str, mask) ==
    [i \in 1..Len(str) |->
        IF mask[((i - 1) % MaskLen) + 1] THEN to_upper_char(str[i]) ELSE str[i]]

KeywordInputs ==
    {CaseVariant(accessor_name[k], mask) :
        k \in DOMAIN accessor_name, mask \in [1..MaskLen -> BOOLEAN]}

InitKeyword == InitParse(KeywordInputs)

NextKeyword == CallParseColor

SpecKeyword == InitKeyword /\ [][NextKeyword]_vars

-----------------------------------------------------------------------------
(* Functional-notation inputs: a prefix, components joined by ',' and ')' *)

\* The most components an input has
MaxComps == 4

\* The literal prefixes parse_color tests, in the order it tests them
FnPrefix == << <<"r","g","b","(">>, <<"r","g","b","a","(">>,
               <<"h","s","l","(">>, <<"h","s","l","a","(">> >>

\* The number of components each of them takes
FnArity == <<3, 4, 3, 4>>

\* The prefixes of the inputs: the four, one in upper case, one misspelled
InputPrefixes ==
    {FnPrefix[i] : i \in 1..Len(FnPrefix)}
        \cup {<<"R","G","B","(">>, <<"r","b","g","a","(">>}

\* The components of the inputs: 0 and 255 convert to u8 and to float; 256,
\* -1 and .5 to float only; x and the empty component to neither
Tokens == {<<"0">>, <<"2","5","5">>, <<"2","5","6">>, <<"-","1">>,
           <<".","5">>, <<"x">>, <<>>}

RECURSIVE Join(_)
Join(comps) ==
    IF Len(comps) = 0 THEN <<>>
    ELSE IF Len(comps) = 1 THEN comps[1]
    ELSE comps[1] \o <<",">> \o Join(Tail(comps))

CompLists == UNION {[1..n -> Tokens] : n \in 1..MaxComps}

\* The empty string, the bare prefixes, and strings with a character outside
\* ASCII on the keyword path and at the end of a functional form
OddInputs ==
    {<<>>, <<"r","<e-acute>","d">>, <<"r","g","b","(","1",",","2","<e-acute>">>}
        \cup {FnPrefix[i] : i \in 1..Len(FnPrefix)}

FunctionalInputs ==
    {p \o Join(cs) \o <<")">> : p \in InputPrefixes, cs \in CompLists}
        \cup OddInputs

InitFunctional == InitParse(FunctionalInputs)

NextFunctional == CallParseColor

SpecFunctional == InitFunctional /\ [][NextFunctional]_vars

-----------------------------------------------------------------------------
(* Properties of the keyword path *)

\* a and b are the same string up to the case of their ASCII letters
SameIgnoringCase(a, b) ==
    /\ Len(a) = Len(b)
    /\ \A i \in 1..Len(a) :
          \/ a[i] = b[i]
          \/ \E j \in 1..Len(LowerCase) :
                {a[i], b[i]} = {LowerCase[j], UpperCase[j]}

\* C1: parse_color of a keyword name, in whatever case its letters are
\* written, is present and is the value of the css_colors accessor of that
\* name.
C1_KeywordAnyCase ==
    pc # "parse_color" =>
        \A k \in DOMAIN accessor_name :
            SameIgnoringCase(color, accessor_name[k])
                => result = Some(css_colors[k])

\* "rEd" was parsed and gave red(); "SiLvEr" is among the inputs
C1_Witness ==
    /\ pc = "returned"
    /\ color = <<"r","E","d">>
    /\ result = Some(css_colors.red)
    /\ <<"S","i","L","v","E","r">> \in KeywordInputs

-----------------------------------------------------------------------------
(* Properties of the functional notations *)

\* C2: parse_color returns a Color or the absent result for every input and
\* never aborts.
C2_NeverAborts == pc # "failed" /\ result # Fail

\* The index in FnPrefix of the prefix `str` starts with, 0 when it starts
\* with none of them
PrefixOf(str) ==
    IF \E i \in 1..Len(FnPrefix) : starts_with(str, FnPrefix[i])
    THEN CHOOSE i \in 1..Len(FnPrefix) : starts_with(str, FnPrefix[i])
    ELSE 0

\* The input starts with one of the four prefixes, goes on after it and ends
\* in an ASCII character: the text between the prefix and the last character
\* exists
HasBody(str) ==
    /\ PrefixOf(str) # 0
    /\ Len(str) > Len(FnPrefix[PrefixOf(str)])
    /\ str[Len(str)] \notin NonAscii

\* The positions of the separators of the body, with the two positions that
\* bound it
Bounds(str) ==
    {Len(FnPrefix[PrefixOf(str)]), Len(str)}
        \cup {i \in (Len(FnPrefix[PrefixOf(str)]) + 1)..(Len(str) - 1) : str[i] = ","}

\* The number of components of the body
NumComps(str) == Cardinality(Bounds(str)) - 1

\* The pairs <<i, c>>: c is component number i of the body
Comps(str) ==
    {<<Cardinality({x \in Bounds(str) : x <= lo}), SubSeq(str, lo + 1, hi - 1)>> :
        <<lo, hi>> \in {b \in Bounds(str) \X Bounds(str) :
            /\ b[1] < b[2]
            /\ \A x \in Bounds(str) : ~(b[1] < x /\ x < b[2])}}

\* C4: the strategy is chosen by the literal, case-sensitive prefix: an input
\* that starts with one of the four prefixes gets the result of that form's
\* parser, every other input gets the result of the keyword lookup, and an
\* input whose prefix differs from one of the four in case only is absent.
C4_PrefixDispatch ==
    pc # "parse_color" =>
        /\ PrefixOf(color) = 1 => result = parse_rgb(color).ret
        /\ PrefixOf(color) = 2 => result = parse_rgba(color).ret
        /\ PrefixOf(color) = 3 => result = parse_hsl(color).ret
        /\ PrefixOf(color) = 4 => result = parse_hsla(color).ret
        /\ PrefixOf(color) = 0 => result = parse_by_name(color).ret
        /\ (PrefixOf(color) = 0 /\ PrefixOf(to_lower(color)) # 0 /\ is_ascii(color))
              => result = None /\ log = <<color>>

\* "RGB(255,0,0)" was parsed and is absent, though parse_rgb accepts it
C4_Witness ==
    /\ pc = "returned"
    /\ color = <<"R","G","B","(","2","5","5",",","0",",","0",")">>
    /\ result = None
    /\ parse_rgb(color).ret = Some(css_colors.red)

NotU8 == {<<"2","5","6">>, <<"-","1">>, <<".","5">>, <<"x">>, <<>>}

NotFloat == {<<"x">>, <<>>}

\* Component number i of an input with prefix number p is a u8
IsChannel(p, i) == p \in {1, 2} /\ i <= 3

\* C6: with the right number of components, one component that does not
\* convert makes the whole input absent, whatever the others are.
C6_NoPartialResult ==
    (pc # "parse_color" /\ HasBody(color) /\ NumComps(color) = FnArity[PrefixOf(color)])
        => \A ic \in Comps(color) :
              (IF IsChannel(PrefixOf(color), ic[1])
               THEN ic[2] \in NotU8 ELSE ic[2] \in NotFloat)
                  => result = None

\* "rgba(255,0,0,x)" was parsed: three valid channels and an alpha that does
\* not convert
C6_Witness ==
    /\ pc = "returned"
    /\ color = <<"r","g","b","a","(","2","5","5",",","0",",","0",",","x",")">>
    /\ Comps(color) = {<<1, <<"2","5","5">>>>, <<2, <<"0">>>>,
                       <<3, <<"0">>>>, <<4, <<"x">>>>}
    /\ result = None

-----------------------------------------------------------------------------
(* The inputs of test_parsing_rgb_all: every keyword's channels as rgb(...) *)

\* n in decimal
RECURSIVE Dec(_)
Dec(n) ==
    IF n < 10 THEN <<Digits[n + 1]>>
    ELSE Dec(n \div 10) \o <<Digits[(n % 10) + 1]>>

\* "rgb(R" sep "G" sep "B)" for the channels of c
RgbText(c, sep) ==
    <<"r","g","b","(">> \o Dec(c.red) \o sep \o Dec(c.green) \o sep
        \o Dec(c.blue) \o <<")">>

RgbAllInputs ==
    {RgbText(css_colors[k], sep) :
        k \in DOMAIN css_colors, sep \in {<<",">>, <<",", " ">>}}

InitRgbAll == InitParse(RgbAllInputs)

NextRgbAll == CallParseColor

SpecRgbAll == InitRgbAll /\ [][NextRgbAll]_vars

-----------------------------------------------------------------------------
(* Calls of hsla on a grid, and hsl(...) inputs of parse_color *)

\* Hues run over -360 * MaxTurns .. 360 * MaxTurns degrees, in steps of 15
MaxTurns == 2

\* Saturation and lightness run over the multiples of 1/Den from -1/Den to
\* 1 + 1/Den
Den == 4

Hues == {F(15 * k, 1) : k \in (-24 * MaxTurns)..(24 * MaxTurns)}

Fractions == {F(i, Den) : i \in (-1)..(Den + 1)}

HslaCalls == [h : Hues, s : Fractions, l : Fractions, a : {F(1, 1), F(1, 2)}]

HueTokens == {<<"0">>, <<"1","2","0">>, <<"2","4","0">>, <<"3","6","0">>,
              <<"2","3","1",".","2">>, <<"-","3","0">>, <<"7","2","0">>}

SatTokens == {<<"0">>, <<"1">>, <<"0",".","0">>, <<"1",".","0">>,
              <<"0",".","7","5">>, <<"2">>}

LightTokens == {<<"0">>, <<"1">>, <<"0",".","0">>, <<"1",".","0">>,
                <<".","5">>, <<"0",".","5">>, <<".","2","5">>}

HslInputs ==
    {<<"h","s","l","(">> \o Join(<<ht, st, lt>>) \o <<")">> :
        ht \in HueTokens, st \in SatTokens, lt \in LightTokens}

InitHsl == InitHsla(HslaCalls) \/ InitParse(HslInputs)

NextHsl == CallHsla \/ CallParseColor

SpecHsl == InitHsl /\ [][NextHsl]_vars

-----------------------------------------------------------------------------
(* Inputs that spell the same numbers in several ways, with and without the
   closing parenthesis *)

\* Each numeral of the inputs with the number it denotes
Numerals ==
    {<<<<"0">>, F(0, 1)>>, <<<<"3">>, F(3, 1)>>, <<<<"0","3">>, F(3, 1)>>,
     <<<<"0","0","3">>, F(3, 1)>>, <<<<"2","5","5">>, F(255, 1)>>,
     <<<<"1">>, F(1, 1)>>, <<<<"1",".","0">>, F(1, 1)>>,
     <<<<"1",".","0","0">>, F(1, 1)>>, <<<<".","5">>, F(1, 2)>>,
     <<<<"0",".","5">>, F(1, 2)>>, <<<<"0",".","5","0">>, F(1, 2)>>,
     <<<<"7">>, F(7, 1)>>, <<<<"2">>, F(2, 1)>>, <<<<"1","2","0">>, F(120, 1)>>,
     <<<<"1","2","0",".","0">>, F(120, 1)>>, <<<<"0","1","2","0">>, F(120, 1)>>}

ChannelNumerals == {<<"0">>, <<"3">>, <<"0","3">>, <<"0","0","3">>, <<"2","5","5">>}

AlphaNumerals == {<<"1">>, <<"1",".","0">>, <<"1",".","0","0">>, <<".","5">>,
                  <<"0",".","5">>, <<"0",".","5","0">>, <<"7">>}

\* What an input ends with: the parenthesis, or another character
Closers == {<<")">>, <<"x">>, <<"]">>}

NumeralInputs ==
    {<<"r","g","b","(">> \o Join(<<r, g, b>>) \o cl :
        r \in ChannelNumerals, g \in ChannelNumerals, b \in ChannelNumerals,
        cl \in Closers}
    \cup
    {<<"r","g","b","a","(">> \o Join(<<r, g, <<"3">>, a>>) \o cl :
        r \in ChannelNumerals, g \in ChannelNumerals, a \in AlphaNumerals,
        cl \in Closers}
    \cup
    {<<"h","s","l","(">> \o Join(<<h_, s, l>>) \o cl :
        h_ \in {<<"1","2","0">>, <<"1","2","0",".","0">>, <<"0","1","2","0">>},
        s \in {<<"1">>, <<"1",".","0">>},
        l \in {<<".","5">>, <<"0",".","5">>, <<"0",".","5","0">>},
        cl \in Closers}
    \cup
    {<<"r","g","b","(">> \o Join(<<<<"1">>, <<"2">>, b>>) \o cl :
        b \in {<<"3">>, <<"0","3">>}, cl \in Closers}

InitNumerals == InitParse(NumeralInputs)

NextNumerals == CallParseColor

SpecNumerals == InitNumerals /\ [][NextNumerals]_vars

-----------------------------------------------------------------------------
(* Inputs near a keyword: abbreviated, extended, surrounded by spaces *)

\* The letters appended to a keyword
Suffixes == {<<"d">>, <<"e">>, <<"n">>, <<"s">>, <<"y">>}

Space == <<" ">>

NearKeywordInputs ==
    UNION {{SubSeq(accessor_name[k], 1, n) : n \in 0..Len(accessor_name[k])} :
              k \in DOMAIN accessor_name}
    \cup {SubSeq(accessor_name[k], 2, Len(accessor_name[k])) :
            k \in DOMAIN accessor_name}
    \cup {accessor_name[k] \o x : k \in DOMAIN accessor_name, x \in Suffixes}
    \cup {pre \o CaseVariant(accessor_name[k], [i \in 1..MaskLen |-> up]) \o post :
            k \in DOMAIN accessor_name, up \in BOOLEAN,
            pre \in {<<>>, Space, Space \o Space},
            post \in {<<>>, Space}}
    \cup {<<"r","b","g","a","(","1",",","2",",","3",")">>,
          <<"f","o","o","b","a","r","b","a","z">>}

InitNearKeyword == InitParse(NearKeywordInputs)

NextNearKeyword == CallParseColor

SpecNearKeyword == InitNearKeyword /\ [][NextNearKeyword]_vars

-----------------------------------------------------------------------------
(* The constructors and the equality of Colors *)

Bytes == {0, 1, 128, 255}

Alphas == {F(0, 1), F(1, 2), F(1, 1), F(7, 1), F(-1, 1), Inf, NaN}

RgbaCalls == [r : Bytes, g : Bytes, b : Bytes, a : Alphas]

RgbCalls == [r : Bytes, g : Bytes, b : Bytes]

HslCalls == [h : Hues, s : Fractions, l : Fractions]

HslaAlphaCalls ==
    [h : {F(0, 1), F(120, 1), F(210, 1), F(720, 1)},
     s : Fractions, l : Fractions, a : Alphas]

\* The inputs of parse_color here: one for each way of writing a Color
ColorInputs ==
    {<<"r","e","d">>, <<"l","i","m","e">>,
     <<"r","g","b","(","2","5","5",",","0",",","0",")">>,
     <<"r","g","b","a","(","2","5","5",",","0",",","0",",","1",")">>,
     <<"r","g","b","a","(","2","5","5",",","0",",","0",",","0",".","5",")">>,
     <<"r","g","b","a","(","1",",","2",",","3",",","7",")">>,
     <<"h","s","l","(","0",",","1",",",".","5",")">>,
     <<"h","s","l","a","(","0",",","1",",",".","5",",",".","5",")">>}

\* The Colors compared: red(), lime(), and Colors one field away from red()
Compared ==
    {Color(255, 0, 0, F(1, 1)), Color(255, 0, 0, F(1, 2)), Color(255, 0, 0, NaN),
     Color(255, 0, 0, Inf), Color(254, 0, 0, F(1, 1)), Color(255, 1, 0, F(1, 1)),
     Color(255, 0, 1, F(1, 1)), Color(254, 0, 1, F(1, 2)),
     Color(0, 255, 0, F(1, 1)), Color(1, 2, 3, F(7, 1))}

EqCalls == [self : Compared, other : Compared]

InitColors ==
    \/ InitCall("rgba", RgbaCalls)
    \/ InitCall("rgb", RgbCalls)
    \/ InitCall("hsl", HslCalls)
    \/ InitCall("hsla", HslaAlphaCalls)
    \/ InitCall("eq", EqCalls)
    \/ InitParse(ColorInputs)

NextColors ==
    \/ CallRgba
    \/ CallRgb
    \/ CallHsl
    \/ CallHsla
    \/ CallEq
    \/ CallParseColor

SpecColors == InitColors /\ [][NextColors]_vars

-----------------------------------------------------------------------------
(* Several calls of parse_color, one after the other *)

MaxCalls == 3

\* One input for each way a call can end
CallInputs ==
    {<<"r","e","d">>,
     <<"r","g","b","(","1",",","2",",","3",")">>,
     <<"h","s","l","(","0",",","1",",",".","5",")">>,
     <<"f","o","o","b","a","r","b","a","z">>,
     <<"r","b","g","a","(","1",",","2",",","3",")">>,
     <<"r","g","b","(","1",",","2",")">>,
     <<"r","g","b","a","(","1",",","2",",","3",")">>,
     <<"r","g","b","(","1",",","x",",","3",")">>,
     <<"h","s","l","a","(","0",",","1",",",".","5",",","y",")">>,
     <<"r","g","b","(">>}

\* The caller, after a call that returned, makes the next one
NextInput ==
    /\ pc = "returned"
    /\ Len(returns) < MaxCalls
    /\ color' \in CallInputs
    /\ pc' = "parse_color"
    /\ UNCHANGED <<args, result, log, cast, returns, sheet, input, trace>>

InitCalls == InitParse(CallInputs)

NextCalls == CallParseColor \/ NextInput

SpecCalls == InitCalls /\ [][NextCalls]_vars

-----------------------------------------------------------------------------
(* Color::print, and parse_color of what it prints *)

\* The text without the zeros it ends with
RECURSIVE StripZeros(_)
StripZeros(str) ==
    IF str # <<>> /\ str[Len(str)] = "0"
    THEN StripZeros(SubSeq(str, 1, Len(str) - 1))
    ELSE str

\* The decimal digits of n, with zeros before them up to the width
RECURSIVE Padded(_, _)
Padded(n, width) ==
    IF width = 0 THEN <<>>
    ELSE Padded(n \div 10, width - 1) \o <<Digits[(n % 10) + 1]>>

\* float::to_str_digits: at most `digits` digits after the point, the last
\* one rounded, the zeros at the end and a bare point left out
to_str_digits(f, digits) ==
    IF IsNaN(f) THEN <<"N","a","N">>
    ELSE IF f = Inf THEN <<"i","n","f">>
    ELSE IF f = NegInf THEN <<"-","i","n","f">>
    ELSE LET scale  == Pow10(digits)
             scaled == (2 * Abs(f.n) * scale + f.d) \div (2 * f.d)
             frac   == StripZeros(Padded(scaled % scale, digits))
         IN  (IF f.n < 0 THEN <<"-">> ELSE <<>>)
                 \o Dec(scaled \div scale)
                 \o (IF frac = <<>> THEN <<>> ELSE <<".">> \o frac)

\* Color::print as it would be if it wrote alpha with seven digits
print_seven_digits(self) ==
    <<"r","g","b","a","(">> \o Dec(self.red) \o <<",">> \o Dec(self.green)
        \o <<",">> \o Dec(self.blue) \o <<",">>
        \o to_str_digits(self.alpha, 7) \o <<")">>

\* fmt!("rgba(%u,%u,%u,%f)", ...): %f with no precision writes six digits
print(self) ==
    <<"r","g","b","a","(">> \o Dec(self.red) \o <<",">> \o Dec(self.green)
        \o <<",">> \o Dec(self.blue) \o <<",">>
        \o to_str_digits(self.alpha, 6) \o <<")">>

\* A Color is printed, and the caller hands the text to parse_color
CallPrint ==
    /\ pc = "print"
    /\ color' = print(args)
    /\ pc' = "parse_color"
    /\ UNCHANGED <<args, result, log, cast, returns, sheet, input, trace>>

PrintBytes == {0, 7, 255}

PrintAlphas ==
    {F(0, 1), F(1, 1), F(1, 2), F(-1, 2), F(7, 1), F(1, 3), F(1, 128), Inf, NaN}

PrintCalls ==
    [red : PrintBytes, green : PrintBytes, blue : PrintBytes, alpha : PrintAlphas]

InitPrint == InitCall("print", PrintCalls)

NextPrint == CallPrint \/ CallParseColor

SpecPrint == InitPrint /\ [][NextPrint]_vars

-----------------------------------------------------------------------------
(* parse_stylesheet *)

\* The most items a stream of the model yields
MaxChunks == 4

\* What the stream made by input_factory yields, call after call of input():
\* chunks of data and, somewhere, None; what it would yield after that None
\* is part of the stream too
Streams ==
    {items \in UNION {[1..n -> {Some("a"), Some("b"), None}] : n \in 1..MaxChunks} :
        \E i \in 1..Len(items) : items[i] = None}

\* The state before parse_stylesheet is called on a factory of one of Streams
InitStylesheet ==
    /\ pc = "parse_stylesheet"
    /\ color = <<>>
    /\ args \in {[url |-> "url", input_factory |-> items] : items \in Streams}
    /\ result = None
    /\ log = <<>>
    /\ cast \in CastOutcomes
    /\ returns = <<>>
    /\ NotParsing

\* let sheet = css_stylesheet_create(move params);
CreateSheet ==
    /\ pc = "parse_stylesheet"
    /\ sheet' = [data |-> <<>>, data_done |-> 0]
    /\ trace' = Append(trace, <<"css_stylesheet_create", args.url>>)
    /\ pc' = "input_factory"
    /\ UNCHANGED <<color, args, result, log, cast, returns, input>>

\* let input = input_factory();
CallInputFactory ==
    /\ pc = "input_factory"
    /\ input' = args.input_factory
    /\ trace' = Append(trace, <<"input_factory", None>>)
    /\ pc' = "input"
    /\ UNCHANGED <<color, args, result, log, cast, returns, sheet>>

\* One turn of the loop in which input() yields Some(data):
\* sheet.append_data(data), and the loop goes on
AppendData ==
    /\ pc = "input"
    /\ input # <<>>
    /\ Head(input) # None
    /\ input' = Tail(input)
    /\ sheet' = [sheet EXCEPT !.data = Append(@, Head(input).val)]
    /\ trace' = trace \o <<<<"input", Head(input)>>,
                           <<"append_data", Head(input).val>>>>
    /\ UNCHANGED <<pc, color, args, result, log, cast, returns>>

\* The turn as it would be if None did not leave the loop
EndOfStream_continue ==
    /\ pc = "input"
    /\ input # <<>>
    /\ Head(input) = None
    /\ input' = Tail(input)
    /\ trace' = Append(trace, <<"input", None>>)
    /\ UNCHANGED <<pc, color, args, result, log, cast, returns, sheet>>

\* The turn of the loop in which input() yields None: break
EndOfStream ==
    /\ pc = "input"
    /\ input # <<>>
    /\ Head(input) = None
    /\ input' = Tail(input)
    /\ trace' = Append(trace, <<"input", None>>)
    /\ pc' = "data_done"
    /\ UNCHANGED <<color, args, result, log, cast, returns, sheet>>

\* sheet.data_done(); return move sheet;
DataDone ==
    /\ pc = "data_done"
    /\ sheet' = [sheet EXCEPT !.data_done = @ + 1]
    /\ trace' = Append(trace, <<"data_done", None>>)
    /\ result' = Ok(sheet')
    /\ pc' = "returned"
    /\ UNCHANGED <<color, args, log, cast, returns, input>>

NextStylesheet ==
    CreateSheet \/ CallInputFactory \/ AppendData \/ EndOfStream \/ DataDone

SpecStylesheet == InitStylesheet /\ [][NextStylesheet]_vars

-----------------------------------------------------------------------------
(* Every call, on every input above *)

Init ==
    \/ InitKeyword \/ InitFunctional \/ InitRgbAll \/ InitHsl
    \/ InitNumerals \/ InitNearKeyword \/ InitColors \/ InitCalls \/ InitPrint
    \/ InitStylesheet

Next ==
    \/ CallParseColor \/ CallHsla \/ CallRgba \/ CallRgb \/ CallHsl \/ CallEq
    \/ NextInput \/ CallPrint \/ NextStylesheet

Spec == Init /\ [][Next]_vars

-----------------------------------------------------------------------------
(* Properties of the conversion from HSL *)

\* hsla was called, and returned or failed
HslaDone ==
    /\ pc \in {"returned", "failed"}
    /\ DOMAIN args = {"h", "s", "l", "a"}
    /\ args # NoArgs

\* parse_color was called, and returned or failed
ParseDone == pc \in {"returned", "failed"} /\ args = NoArgs

InUnit(x) == fle(F(0, 1), x) /\ fle(x, F(1, 1))

\* C3: hsla never reaches the "unexpected hue value" branch, for any finite
\* hue.
C3_NoFatalHue == (HslaDone /\ IsFinite(args.h)) => result # Fail

\* C7: parse_color("rgb(R, G, B)"), one space after each comma, is the
\* keyword's value for the channels of every keyword.
C7_SpacedRgb ==
    ParseDone =>
        \A k \in DOMAIN css_colors :
            color = RgbText(css_colors[k], <<",", " ">>)
                => result = Some(css_colors[k])

\* The hue function of the CSS conversion at x: x taken modulo 1, then
\* four pieces
CssHue(m1, m2, x) ==
    LET t == F(x.n - (x.n \div x.d) * x.d, x.d)
        d == fsub(m2, m1)
    IN  IF flt(t, F(1, 6)) THEN fadd(m1, fmul(fmul(d, t), F(6, 1)))
        ELSE IF flt(t, F(1, 2)) THEN m2
        ELSE IF flt(t, F(2, 3)) THEN fadd(m1, fmul(fmul(d, fsub(F(2, 3), t)), F(6, 1)))
        ELSE m1

\* 255 * v to the nearest integer, halves upwards (v >= 0)
Channel(v) == (2 * 255 * v.n + v.d) \div (2 * v.d)

\* The CSS conversion of h degrees, s, l, with alpha a
CssHsla(h_, s, l, a) ==
    LET m2 == IF fle(l, F(1, 2)) THEN fmul(l, fadd(F(1, 1), s))
              ELSE fsub(fadd(l, s), fmul(l, s))
        m1 == fsub(fmul(F(2, 1), l), m2)
        x  == F(h_.n, 360 * h_.d)
    IN  Color(Channel(CssHue(m1, m2, fadd(x, F(1, 3)))),
              Channel(CssHue(m1, m2, x)),
              Channel(CssHue(m1, m2, fsub(x, F(1, 3)))), a)

\* C8: for h in [0,360] and s, l in [0,1], hsla(h,s,l,a) is the CSS
\* conversion; parse_color of hsl(0,1,.5), hsl(120,1,.5) and hsl(240,1,.5) is
\* red(), lime() and blue().
C8_CssConversion ==
    /\ (HslaDone /\ fle(F(0, 1), args.h) /\ fle(args.h, F(360, 1))
            /\ InUnit(args.s) /\ InUnit(args.l))
          => result = Ok(CssHsla(args.h, args.s, args.l, args.a))
    /\ (ParseDone /\ color = <<"h","s","l","(","0",",","1",",",".","5",")">>)
          => result = Some(css_colors.red)
    /\ (ParseDone /\ color = <<"h","s","l","(","1","2","0",",","1",",",".","5",")">>)
          => result = Some(css_colors.lime)
    /\ (ParseDone /\ color = <<"h","s","l","(","2","4","0",",","1",",",".","5",")">>)
          => result = Some(css_colors.blue)

\* hsla(195, 3/4, 1/4, 1/2) returned: the green channel comes from the third
\* piece of the hue function, and the channels are 16, 88, 112
C8_Witness ==
    /\ pc = "returned"
    /\ args = [h |-> F(195, 1), s |-> F(3, 4), l |-> F(1, 4), a |-> F(1, 2)]
    /\ result = Ok(Color(16, 88, 112, F(1, 2)))

\* The third component of an hsl(...) input is one of `tokens`
LightnessIn(tokens) ==
    /\ HasBody(color)
    /\ PrefixOf(color) = 3
    /\ NumComps(color) = 3
    /\ \E ic \in Comps(color) : ic[1] = 3 /\ ic[2] \in tokens
    /\ \A ic \in Comps(color) : ic[2] \notin NotFloat

\* C9: parse_color("hsl(h,s,0)") is black() and parse_color("hsl(h,s,1)") is
\* white(), for every hue and saturation that parse as numbers.
C9_LightnessFixes ==
    /\ (ParseDone /\ LightnessIn({<<"0">>, <<"0",".","0">>}))
          => result = Some(css_colors.black)
    /\ (ParseDone /\ LightnessIn({<<"1">>, <<"1",".","0">>}))
          => result = Some(css_colors.white)

\* C10: with saturation 0 the three channels are round(255*l), halves away
\* from zero, whatever the hue (l in [0,1]); parse_color("hsl(0,0,0.5)") is
\* gray(), channels 128.
C10_ZeroSaturationGray ==
    /\ (HslaDone /\ args.s = F(0, 1) /\ InUnit(args.l))
          => result = Ok(Color(Channel(args.l), Channel(args.l),
                               Channel(args.l), args.a))
    /\ (ParseDone /\ color = <<"h","s","l","(","0",",","0",",","0",".","5",")">>)
          => result = Some(css_colors.gray) /\ result.val.red = 128

-----------------------------------------------------------------------------
(* Properties of the numerals and of the closing parenthesis *)

\* Component number i of the body of the input
Comp(i) == (CHOOSE ic \in Comps(color) : ic[1] = i)[2]

\* The number the numeral tok denotes
Denoted(tok) == (CHOOSE p \in Numerals : p[1] = tok)[2]

\* The input is a functional form closed by ")" with the right number of
\* components, each of them one of the numerals
WellFormed ==
    /\ HasBody(color)
    /\ color[Len(color)] = ")"
    /\ NumComps(color) = FnArity[PrefixOf(color)]
    /\ \A ic \in Comps(color) : \E p \in Numerals : p[1] = ic[2]

\* C11: the result of parsing a functional form depends only on the numbers
\* its components denote, not on their spelling ("03" and "3"; "1", "1.0"
\* and "1.00"; ".5" and "0.5"), and is rgb(r,g,b), rgba(r,g,b,a) or
\* hsl(h,s,l) of those numbers.
C11_SpellingIrrelevant ==
    (ParseDone /\ WellFormed) =>
        /\ PrefixOf(color) = 1 =>
              result = Some(Color(Denoted(Comp(1)).n, Denoted(Comp(2)).n,
                                  Denoted(Comp(3)).n, F(1, 1)))
        /\ PrefixOf(color) = 2 =>
              result = Some(Color(Denoted(Comp(1)).n, Denoted(Comp(2)).n,
                                  Denoted(Comp(3)).n, Denoted(Comp(4))))
        /\ PrefixOf(color) = 3 =>
              result = SomeOf(hsl(Denoted(Comp(1)), Denoted(Comp(2)),
                                  Denoted(Comp(3))))

\* "rgba(03,003,3,0.50)" was parsed and is rgba(3,3,3,0.5)
C11_Witness ==
    /\ pc = "returned"
    /\ color = <<"r","g","b","a","(","0","3",",","0","0","3",",","3",",",
                 "0",".","5","0",")">>
    /\ result = Some(Color(3, 3, 3, F(1, 2)))

\* C20: a functional form is accepted only when its last character is ")":
\* with any other last character the input is absent.
C20_CloserRequired ==
    (ParseDone /\ HasBody(color) /\ color[Len(color)] # ")") => result = None

-----------------------------------------------------------------------------
(* Properties of the keyword lookup *)

\* Some keyword is `str` up to the case of its letters
IsKeyword(str) ==
    \E k \in DOMAIN accessor_name : SameIgnoringCase(str, accessor_name[k])

\* C12: on the keyword path only an exact match counts: an ASCII input that
\* has none of the four prefixes and is not a keyword up to the case of its
\* letters (an abbreviation, an extension, "rbga(1,2,3)", "foobarbaz") is
\* absent; the match has exactly 147 distinct names, each the name of the
\* css_colors accessor its arm calls.
C12_ExactMatchOnly ==
    /\ (ParseDone /\ is_ascii(color) /\ PrefixOf(color) = 0 /\ ~IsKeyword(color))
          => result = None
    /\ (ParseDone /\ IsKeyword(color)) => result.tag = "Some"
    /\ Cardinality({keyword_arms[i].pat : i \in 1..Len(keyword_arms)}) = 147
    /\ Cardinality(DOMAIN css_colors) = 147
    /\ \A i \in 1..Len(keyword_arms) :
          /\ keyword_arms[i].fn \in DOMAIN css_colors
          /\ keyword_arms[i].pat = accessor_name[keyword_arms[i].fn]

\* "re" was looked up and is absent; "redd", "rbga(1,2,3)" and "foobarbaz"
\* are among the inputs
C12_Witness ==
    /\ pc = "returned"
    /\ color = <<"r","e">>
    /\ result = None
    /\ {<<"r","e","d","d">>, <<"r","b","g","a","(","1",",","2",",","3",")">>,
        <<"f","o","o","b","a","r","b","a","z">>} \subseteq NearKeywordInputs

\* The keywords spelled with "gray" and their spellings with "grey"
SpellingPairs ==
    {<<"gray", "grey">>, <<"darkgray", "darkgrey">>,
     <<"darkslategray", "darkslategrey">>, <<"dimgray", "dimgrey">>,
     <<"lightgray", "lightgrey">>, <<"lightslategray", "lightslategrey">>,
     <<"slategray", "slategrey">>}

\* C13: a keyword spelled with "gray" and the same keyword spelled with
\* "grey" give equal Colors: each spelling parses to the value of the
\* accessor of the other spelling.
C13_SpellingPairsEqual ==
    ParseDone =>
        \A p \in SpellingPairs :
            /\ SameIgnoringCase(color, accessor_name[p[1]])
                  => result = Some(css_colors[p[2]])
            /\ SameIgnoringCase(color, accessor_name[p[2]])
                  => result = Some(css_colors[p[1]])

\* "darkgrey" was parsed and gave the value of darkgray()
C13_Witness ==
    /\ pc = "returned"
    /\ color = <<"d","a","r","k","g","r","e","y">>
    /\ result = Some(css_colors.darkgray)

\* `str` is a keyword, in whatever case, with spaces before or after it, at
\* least one of them
IsSpacedKeyword(str) ==
    \E i, j \in 1..Len(str) :
        /\ i <= j
        /\ i > 1 \/ j < Len(str)
        /\ \A n \in 1..Len(str) : (n < i \/ n > j) => str[n] = " "
        /\ IsKeyword(SubSeq(str, i, j))

\* C14: the keyword path strips no whitespace: a keyword with at least one
\* space before or after it is absent.
C14_SpacesNotStripped ==
    (ParseDone /\ IsSpacedKeyword(color)) => result = None

\* " red" was looked up and is absent; "red " is among the inputs
C14_Witness ==
    /\ pc = "returned"
    /\ color = <<" ","r","e","d">>
    /\ result = None
    /\ <<"r","e","d"," ">> \in NearKeywordInputs

-----------------------------------------------------------------------------
(* Properties of the constructors and of equality *)

\* A call of the function whose arguments are named `fields` is over
Done(fields) == pc \in {"returned", "failed"} /\ DOMAIN args = fields

\* The three channels of a Color
Channels(c) == <<c.red, c.green, c.blue>>

\* C15: rgba stores its four arguments unchanged and never fails, whatever
\* the alpha; "rgba(1,2,3,7)" parses to channels 1,2,3 and alpha 7; hsla
\* copies its alpha argument to the result, and its channels (or its failure)
\* are those of the same call with any other alpha.
C15_ArgumentsStored ==
    /\ Done({"r", "g", "b", "a"}) =>
          /\ pc = "returned"
          /\ result = Ok([red |-> args.r, green |-> args.g,
                          blue |-> args.b, alpha |-> args.a])
    /\ (ParseDone /\ color = <<"r","g","b","a","(","1",",","2",",","3",",","7",")">>)
          => result = Some([red |-> 1, green |-> 2, blue |-> 3, alpha |-> F(7, 1)])
    /\ HslaDone =>
          \A a2 \in Alphas :
              LET other == hsla(args.h, args.s, args.l, a2)
              IN  IF result = Fail THEN other = Fail
                  ELSE /\ result.val.alpha = args.a
                       /\ other # Fail
                       /\ Channels(other.val) = Channels(result.val)

\* rgba(255, 0, 1, 7.0) returned a Color of alpha 7
C15_Witness ==
    /\ Done({"r", "g", "b", "a"})
    /\ args = [r |-> 255, g |-> 0, b |-> 1, a |-> F(7, 1)]
    /\ result.val.alpha = F(7, 1)

\* C16: rgb(r,g,b) is rgba(r,g,b,1.0) and hsl(h,s,l) is hsla(h,s,l,1.0): the
\* same Color, or the same failure.
C16_DefaultAlpha ==
    /\ Done({"r", "g", "b"}) =>
          /\ result = Ok(rgba(args.r, args.g, args.b, F(1, 1)))
          /\ result.val.alpha = F(1, 1)
    /\ Done({"h", "s", "l"}) =>
          result = hsla(args.h, args.s, args.l, F(1, 1))

\* rgb(255, 0, 0) returned the opaque red
C16_Witness ==
    /\ Done({"r", "g", "b"})
    /\ args = [r |-> 255, g |-> 0, b |-> 0]
    /\ result = Ok([red |-> 255, green |-> 0, blue |-> 0, alpha |-> F(1, 1)])

\* C17: two Colors are equal exactly when red, green, blue and alpha are all
\* equal: "rgba(255,0,0,0.5)" differs from red(), and red written as a
\* keyword, in the rgb or the hsl form or built by a constructor are all equal.
C17_StructuralEquality ==
    Done({"self", "other"}) =>
        /\ result.val <=>
              /\ args.self.red = args.other.red
              /\ args.self.green = args.other.green
              /\ args.self.blue = args.other.blue
              /\ args.self.alpha = args.other.alpha
              /\ ~IsNaN(args.self.alpha)
        /\ (/\ args.self = parse_color(<<"r","g","b","a","(","2","5","5",",",
                                         "0",",","0",",","0",".","5",")">>).ret.val
            /\ args.other = css_colors.red) => ~result.val
        /\ (/\ args.self \in
                  {parse_color(<<"r","e","d">>).ret.val,
                   parse_color(<<"r","g","b","(","2","5","5",",","0",",","0",")">>).ret.val,
                   parse_color(<<"h","s","l","(","0",",","1",",",".","5",")">>).ret.val,
                   rgba(255, 0, 0, F(1, 1))}
            /\ args.other \in {css_colors.red, rgb(255, 0, 0)}) => result.val

\* The half-transparent red was compared with red() and found different
C17_Witness ==
    /\ Done({"self", "other"})
    /\ args.self = [red |-> 255, green |-> 0, blue |-> 0, alpha |-> F(1, 2)]
    /\ args.other = css_colors.red
    /\ result = Ok(FALSE)

-----------------------------------------------------------------------------
(* Properties of sequences of calls *)

\* The inputs that fail, by cause: bad prefix, wrong number of components,
\* malformed component, unknown keyword
FailingInputs ==
    {<<"r","b","g","a","(","1",",","2",",","3",")">>,
     <<"r","g","b","(","1",",","2",")">>,
     <<"r","g","b","a","(","1",",","2",",","3",")">>,
     <<"r","g","b","(","1",",","x",",","3",")">>,
     <<"h","s","l","a","(","0",",","1",",",".","5",",","y",")">>,
     <<"f","o","o","b","a","r","b","a","z">>}

\* The calls so far that returned the absent value
Absent == SelectSeq(returns, LAMBDA r : r[2] = None)

\* C18: parse_color is a pure function with one failure value: in any
\* sequence of calls, two calls on the same string return the same value, each
\* call returns what a first call on its string returns, every failure cause
\* returns the same None, and the diagnostics emitted (one for each None
\* returned, carrying the input) change nothing of that.
C18_PureSingleFailure ==
    /\ \A i, j \in 1..Len(returns) :
          returns[i][1] = returns[j][1] => returns[i][2] = returns[j][2]
    /\ \A i \in 1..Len(returns) :
          /\ returns[i][2] = parse_color(returns[i][1]).ret
          /\ returns[i][1] \in FailingInputs => returns[i][2] = None
          /\ returns[i][1] = <<"r","e","d">> => returns[i][2] = Some(css_colors.red)
    /\ log = [i \in 1..Len(Absent) |-> Absent[i][1]]

\* "red" was parsed before and after an unknown keyword, and gave red() both
\* times
C18_Witness ==
    /\ Len(returns) = 3
    /\ returns[1] = <<<<"r","e","d">>, Some(css_colors.red)>>
    /\ returns[2] = <<<<"f","o","o","b","a","r","b","a","z">>, None>>
    /\ returns[3] = returns[1]
    /\ log = <<<<"f","o","o","b","a","r","b","a","z">>>>

-----------------------------------------------------------------------------
(* Properties of rendering *)

\* The text of each channel and of each alpha printed
ByteText == {<<0, <<"0">>>>, <<7, <<"7">>>>, <<255, <<"2","5","5">>>>}

AlphaText ==
    {<<F(0, 1), <<"0">>>>, <<F(1, 1), <<"1">>>>, <<F(1, 2), <<"0",".","5">>>>,
     <<F(-1, 2), <<"-","0",".","5">>>>, <<F(7, 1), <<"7">>>>,
     <<F(1, 3), <<"0",".","3","3","3","3","3","3">>>>,
     <<F(1, 128), <<"0",".","0","0","7","8","1","3">>>>,
     <<Inf, <<"i","n","f">>>>, <<NaN, <<"N","a","N">>>>}

TextOf(table, v) == (CHOOSE p \in table : p[1] = v)[2]

\* C19: print writes "rgba(R,G,B,A)" with the channels as integers and alpha
\* formatted as %f formats it, and printing then parsing is not the identity:
\* the Color rgba(7,0,255,1/128) does not come back from its text.
C19_PrintNotInverse ==
    (DOMAIN args = {"red", "green", "blue", "alpha"} /\ pc # "print") =>
        /\ color = <<"r","g","b","a","(">> \o TextOf(ByteText, args.red)
                      \o <<",">> \o TextOf(ByteText, args.green)
                      \o <<",">> \o TextOf(ByteText, args.blue)
                      \o <<",">> \o TextOf(AlphaText, args.alpha) \o <<")">>
        /\ (pc # "parse_color" /\ args = [red |-> 7, green |-> 0, blue |-> 255,
                                          alpha |-> F(1, 128)])
              => /\ result # Some(args)
                 /\ ~eq(result.val, args)

\* rgba(7,0,255,1/128) was printed as "rgba(7,0,255,0.007813)" and parsed to
\* a Color of another alpha
C19_Witness ==
    /\ pc = "returned"
    /\ args = [red |-> 7, green |-> 0, blue |-> 255, alpha |-> F(1, 128)]
    /\ color = <<"r","g","b","a","(","7",",","0",",","2","5","5",",",
                 "0",".","0","0","7","8","1","3",")">>
    /\ result = Some([red |-> 7, green |-> 0, blue |-> 255,
                      alpha |-> F(7813, 1000000)])

-----------------------------------------------------------------------------
(* The range of the channels hsla computes *)

\* The channel is a number from 0.0 to 1.0
InUnit64(x) == IsFinite64(x) /\ fle64(FromInt(0), x) /\ fle64(x, FromInt(1))

\* C21: when s and l are in [0,1] and hsla completes, each fractional channel
\* lies in [0,1], round(255 * channel) is a whole number from 0 to 255, and the
\* channel stored in the Color is that number, whatever the cast does with
\* values u8 cannot hold.
C21_ChannelsInRange ==
    (HslaDone /\ InUnit(args.s) /\ InUnit(args.l) /\ result # Fail) =>
        \E ch \in {Fractional(args.h, args.s, args.l)} :
            \A i \in 1..3 :
                /\ ch[i] # Fail
                /\ InUnit64(ch[i].val)
                /\ IsFinite(Scaled(ch[i].val))
                /\ Scaled(ch[i].val).d = 1
                /\ Scaled(ch[i].val).n \in 0..255
                /\ Channels(result.val)[i] = Scaled(ch[i].val).n

\* hsla(0, 1, 1/2, 1) returned red in a build whose cast wraps: its red
\* channel is the largest value the cast leaves alone, its others the smallest
C21_Witness ==
    /\ pc = "returned"
    /\ cast = "wrap"
    /\ args = [h |-> F(0, 1), s |-> F(1, 1), l |-> F(1, 2), a |-> F(1, 1)]
    /\ result = Ok(Color(255, 0, 0, F(1, 1)))

-----------------------------------------------------------------------------
(* The period of the hue *)

\* C22: wherever hsla(h,s,l,a) and hsla(h+360,s,l,a) both complete, they
\* return the same Color.
C22_PeriodicHue ==
    (HslaDone /\ result # Fail) =>
        \E later \in {hsla(fadd(args.h, F(360, 1)), args.s, args.l, args.a)} :
            later # Fail => later = result

-----------------------------------------------------------------------------
(* The order of the calls parse_stylesheet makes *)

\* parse_stylesheet was called, and is under way or has returned
Parsing == DOMAIN args = {"url", "input_factory"}

\* The places in `trace` of the calls of `op`
Calls(op) == {i \in 1..Len(trace) : trace[i][1] = op}

\* What the calls of `op` were given or yielded, in the order of the calls
RECURSIVE ValuesFrom(_, _)
ValuesFrom(op, i) ==
    IF i > Len(trace) THEN <<>>
    ELSE (IF trace[i][1] = op THEN <<trace[i][2]>> ELSE <<>>)
         \o ValuesFrom(op, i + 1)

\* The chunks among `items`, in order
RECURSIVE ChunksOf(_)
ChunksOf(items) ==
    IF items = <<>> THEN <<>>
    ELSE (IF Head(items) = None THEN <<>> ELSE <<Head(items).val>>)
         \o ChunksOf(Tail(items))

\* The place of the first None in the stream
FirstNone(items) ==
    CHOOSE i \in 1..Len(items) :
        items[i] = None /\ \A j \in 1..(i - 1) : items[j] # None

\* C23: parse_stylesheet creates the stream once, by calling input_factory
\* after the sheet is created; it appends to the sheet every chunk the stream
\* yields, in the order yielded and each exactly once; it stops at the first
\* None, reading nothing from the stream after it; and it calls data_done
\* exactly once, after the last append, with no append_data after it.
C23_StreamToSheet ==
    Parsing =>
        \E read \in {ValuesFrom("input", 1)} :
            \* the sheet is created once, and the stream once, after it
            /\ Cardinality(Calls("css_stylesheet_create")) <= 1
            /\ Cardinality(Calls("input_factory")) <= 1
            /\ \A f \in Calls("input_factory") :
                   \E c \in Calls("css_stylesheet_create") : c < f
            /\ \A i \in Calls("input") : \E f \in Calls("input_factory") : f < i
            \* what was read is what the stream yields, up to its first None
            /\ Len(read) <= FirstNone(args.input_factory)
            /\ read = SubSeq(args.input_factory, 1, Len(read))
            \* every chunk read was appended once, in the order read, right
            \* after it was read
            /\ ValuesFrom("append_data", 1) = ChunksOf(read)
            /\ \A i \in Calls("input") :
                   trace[i][2] # None =>
                       /\ i < Len(trace)
                       /\ trace[i + 1] = <<"append_data", trace[i][2].val>>
            /\ sheet # None => sheet.data = ChunksOf(read)
            \* data_done is called at most once, after the None was read, and
            \* is the last call
            /\ Cardinality(Calls("data_done")) <= 1
            /\ \A d \in Calls("data_done") :
                   /\ d = Len(trace)
                   /\ Len(read) = FirstNone(args.input_factory)
            \* when parse_stylesheet returns, all of it has happened
            /\ pc = "returned" =>
                   /\ Cardinality(Calls("css_stylesheet_create")) = 1
                   /\ Cardinality(Calls("input_factory")) = 1
                   /\ Len(read) = FirstNone(args.input_factory)
                   /\ Cardinality(Calls("data_done")) = 1
                   /\ sheet.data_done = 1
                   /\ result = Ok(sheet)

\* parse_stylesheet returned after a stream that yields two chunks, None and
\* one more chunk: the sheet holds the two chunks, data_done was called, and
\* the last chunk is still in the stream
C23_Witness ==
    /\ pc = "returned"
    /\ args = [url |-> "url",
               input_factory |-> <<Some("a"), Some("b"), None, Some("a")>>]
    /\ sheet = [data |-> <<"a", "b">>, data_done |-> 1]
    /\ input = <<Some("a")>>
    /\ trace = <<<<"css_stylesheet_create", "url">>, <<"input_factory", None>>,
                 <<"input", Some("a")>>, <<"append_data", "a">>,
                 <<"input", Some("b")>>, <<"append_data", "b">>,
                 <<"input", None>>, <<"data_done", None>>>>

=============================================================================
